---- MODULE Spec2Model ----
(***************************************************************************)
(* The action timeline engine of OFS: the action store (Funscript), its    *)
(* spline index, the selection, the deferred change notification, the      *)
(* snapshot undo/redo log and the save threads; the event system's handler *)
(* list; the task queue and the Lua calls of the Lua extensions.            *)
(*                                                                          *)
(* C++ vectors are 0-based; the sequences here are 1-based.  An index that  *)
(* the code stores (an iterator offset, an ActionMap value, a pointer into  *)
(* data.Actions) is kept 0-based and is read with At(seq, i).  A null       *)
(* pointer is the index Null.  Float results are exact rationals: the       *)
(* rounding of 32-bit float arithmetic is not modelled.                     *)
(***************************************************************************)
EXTENDS Integers, Sequences, FiniteSets, TLC

\* ------------------------------------------------------------------ bounds
MaxTime == 3
MaxActions == 3
MaxEvents == 2

Times == 0..MaxTime
Positions == {0, 30, 100}

FunscriptAction(at, pos) == [at |-> at, pos |-> pos]

ActionInputs == {FunscriptAction(t, p) : t \in Times, p \in Positions}

Null == -1

\* What `ret` holds before any call that returns a value.
NoResult == [op |-> "none"]

VARIABLES Actions, selection, funscriptChanged, selectionChanged,
          SplineNeedsUpdate, ActionMap, events, lastOp, ret,
          UndoStack, RedoStack, shot, hist, save, handlers, lua

vars == <<Actions, selection, funscriptChanged, selectionChanged,
          SplineNeedsUpdate, ActionMap, events, lastOp, ret,
          UndoStack, RedoStack, shot, hist, save, handlers, lua>>

\* The undo log and what is recorded about its use.
undoVars == <<UndoStack, RedoStack, shot, hist>>

\* EventSystem: no handler is subscribed before the first Subscribe.
InitEvents == handlers = <<>>

\* OFS_LuaExtensions before any frame: one extension, loaded and active, no
\* task queued, no task thread, nobody inside Lua_Pcall.
InitLua ==
    lua = [Tasks |-> <<>>, TaskBusy |-> FALSE, ExtensionError |-> FALSE,
           call |-> FALSE, asserted |-> FALSE, main |-> "idle", thread |-> "none",
           queued |-> <<>>, executed |-> <<>>, raced |-> FALSE]

\* ------------------------------------------------------- vector primitives
At(seq, i) == seq[i + 1]

Size(seq) == Len(seq)

\* The elements of a vector, from which a predicate selects those it matches.
Elems(seq) == {seq[i] : i \in 1..Len(seq)}

\* std::find_if(begin + from, end, pred): the 0-based index of the first
\* element at or after `from` among those the predicate matches, or Size(seq)
\* (the end iterator).
FindIf(seq, from, matching) ==
    LET hits == {i \in from..(Size(seq) - 1) : At(seq, i) \in matching}
    IN  IF hits = {} THEN Size(seq)
        ELSE CHOOSE i \in hits : \A j \in hits : i <= j

\* vector::insert(begin + i, x)
InsertAt(seq, i, x) == SubSeq(seq, 1, i) \o <<x>> \o SubSeq(seq, i + 1, Len(seq))

\* vector::erase(begin + i)
EraseAt(seq, i) == SubSeq(seq, 1, i) \o SubSeq(seq, i + 2, Len(seq))

\* std::remove_if followed by erase(newEnd, end): the elements the predicate
\* does not match, in their order.
RemoveIf(seq, matching) == SelectSeq(seq, LAMBDA x : x \notin matching)

Contains(seq, x) == \E i \in 1..Len(seq) : seq[i] = x

\* Insertion of x into a sequence sorted by `at`, after the elements that are
\* not greater (what insertion sort does with an element met later).
RECURSIVE InsertSorted(_, _)
InsertSorted(sorted, x) ==
    IF sorted = <<>> THEN <<x>>
    ELSE IF x.at < Head(sorted).at THEN <<x>> \o sorted
         ELSE <<Head(sorted)>> \o InsertSorted(Tail(sorted), x)

\* sortActions: std::sort by timestamp.  The vectors modelled are far below
\* the size at which std::sort leaves insertion sort, so equal timestamps
\* keep their order.
RECURSIVE sortActions(_)
sortActions(actions) ==
    IF actions = <<>> THEN <<>>
    ELSE InsertSorted(sortActions(SubSeq(actions, 1, Len(actions) - 1)),
                      actions[Len(actions)])

StrictlyIncreasing(seq) ==
    \A i \in 1..(Len(seq) - 1) : seq[i].at < seq[i + 1].at

\* ------------------------------------------------------------ the object
\* The fields of a Funscript that the operations read and write, as one
\* record, so that an operation that calls another composes.
Cur == [Actions |-> Actions, selection |-> selection,
        funscriptChanged |-> funscriptChanged,
        selectionChanged |-> selectionChanged,
        SplineNeedsUpdate |-> SplineNeedsUpdate, ActionMap |-> ActionMap]

Becomes(s) ==
    /\ Actions' = s.Actions
    /\ selection' = s.selection
    /\ funscriptChanged' = s.funscriptChanged
    /\ selectionChanged' = s.selectionChanged
    /\ SplineNeedsUpdate' = s.SplineNeedsUpdate
    /\ ActionMap' = s.ActionMap

\* The spline index over a store: timestamp -> index of the action that has
\* it (the first one, should a timestamp occur twice).
BuildActionMap(actions) ==
    [t \in {actions[i].at : i \in 1..Len(actions)} |->
        (CHOOSE i \in 1..Len(actions) :
            /\ actions[i].at = t
            /\ \A j \in 1..Len(actions) : actions[j].at = t => i <= j) - 1]

EmptyMap == BuildActionMap(<<>>)

\* NotifyActionsChanged raises the actions-changed flag and invalidates the
\* spline index.  An invalidated index is never read before it is rebuilt, so
\* its stale contents are not kept.
NotifyActionsChanged(s, isEdit) ==
    [s EXCEPT !.funscriptChanged = TRUE, !.SplineNeedsUpdate = TRUE,
              !.ActionMap = EmptyMap]

NotifySelectionChanged(s) == [s EXCEPT !.selectionChanged = TRUE]

ClearSelection(s) == [s EXCEPT !.selection = <<>>]

\* ------------------------------------------------------------- lookups
\* getAction: a pointer into data.Actions (its 0-based index) or Null.  With
\* a valid index the lookup is by timestamp alone; otherwise by value.
getAction(s, action) ==
    IF ~s.SplineNeedsUpdate
    THEN IF action.at \in DOMAIN s.ActionMap THEN s.ActionMap[action.at] ELSE Null
    ELSE LET it == FindIf(s.Actions, 0, {a \in Elems(s.Actions) : a = action})
         IN  IF it # Size(s.Actions) THEN it ELSE Null

\* ScriptSpline.ActionMap.lower_bound(key): the entry with the least
\* timestamp >= key, as its index value, or Null for end().
LowerBound(map, key) ==
    LET ks == {k \in DOMAIN map : k >= key}
    IN  IF ks = {} THEN Null
        ELSE map[CHOOSE k \in ks : \A j \in ks : k <= j]

\* ScriptSpline.ActionMap.upper_bound(key): the entry with the least
\* timestamp > key; found is FALSE for end().
UpperBound(map, key) ==
    LET ks == {k \in DOMAIN map : k > key}
    IN  IF ks = {} THEN [found |-> FALSE, first |-> 0, second |-> 0]
        ELSE LET k == CHOOSE k \in ks : \A j \in ks : k <= j
             IN  [found |-> TRUE, first |-> k, second |-> map[k]]

Abs(x) == IF x < 0 THEN -x ELSE x

MaxInt32 == 2147483647

\* a > b for an int32 a and a uint32 b, both given by their int32 value: the
\* comparison is made on the 32-bit patterns read as unsigned.
UnsignedGreater(a, b) == IF (a < 0) = (b < 0) THEN a > b ELSE a < 0

\* The loop of getActionAtTime from index i on, with the smallest error and
\* its action so far.  max_error_ms is a uint32_t, so the sum it enters and
\* the comparisons with it are unsigned.
RECURSIVE ActionAtTimeScan(_, _, _, _, _, _)
ActionAtTimeScan(actions, i, time_ms, max_error_ms, smallestError, best) ==
    IF i >= Size(actions) THEN best
    ELSE LET action == At(actions, i)
             error  == Abs(time_ms - action.at)
         IN  IF UnsignedGreater(action.at, time_ms + (max_error_ms \div 2)) THEN best
             ELSE IF ~UnsignedGreater(error, max_error_ms)
                  THEN IF error <= smallestError
                       THEN ActionAtTimeScan(actions, i + 1, time_ms, max_error_ms,
                                             error, i)
                       ELSE best
                  ELSE ActionAtTimeScan(actions, i + 1, time_ms, max_error_ms,
                                        smallestError, best)

\* getActionAtTime(data.Actions, time_ms, max_error_ms): index or Null.
getActionAtTime(s, time_ms, max_error_ms) ==
    LET lb == IF ~s.SplineNeedsUpdate
              THEN LowerBound(s.ActionMap, time_ms - max_error_ms)
              ELSE Null
        i  == IF lb # Null THEN lb ELSE 0
    IN  ActionAtTimeScan(s.Actions, i, time_ms, max_error_ms, MaxInt32, Null)

\* ---------------------------------------------------------- query engine
RECURSIVE Gcd(_, _)
Gcd(a, b) == IF b = 0 THEN a ELSE Gcd(b, a % b)

\* The rational n/d (d > 0) in lowest terms.
Frac(n, d) ==
    LET g == Gcd(Abs(n), d)
    IN  [num |-> n \div g, den |-> d \div g]

\* GetPositionAtTime, lines 143-151: where the scan starts.
StartIndex_NoStepBack(s, time_ms) ==
    LET lb == IF ~s.SplineNeedsUpdate THEN LowerBound(s.ActionMap, time_ms) ELSE Null
    IN  IF lb # Null THEN lb ELSE 0

StartIndex(s, time_ms) ==
    LET lb == IF ~s.SplineNeedsUpdate THEN LowerBound(s.ActionMap, time_ms) ELSE Null
    IN  IF lb # Null THEN (IF lb > 0 THEN lb - 1 ELSE lb) ELSE 0

\* The scan with the exact-match test made on the next action instead of the
\* current one.
RECURSIVE PositionScan_MatchNext(_, _, _)
PositionScan_MatchNext(actions, i, time_ms) ==
    IF i >= Size(actions) - 1 THEN Frac(At(actions, Size(actions) - 1).pos, 1)
    ELSE LET action == At(actions, i)
             next   == At(actions, i + 1)
         IN  IF time_ms > action.at /\ time_ms < next.at
             THEN Frac(action.pos * (next.at - action.at)
                         + (time_ms - action.at) * (next.pos - action.pos),
                       next.at - action.at)
             ELSE IF next.at = time_ms THEN Frac(action.pos, 1)
                  ELSE PositionScan_MatchNext(actions, i + 1, time_ms)

\* The scan that answers a time no pair brackets with the first action's
\* position instead of the last one's.
RECURSIVE PositionScan_FallToFirst(_, _, _)
PositionScan_FallToFirst(actions, i, time_ms) ==
    IF i >= Size(actions) - 1 THEN Frac(At(actions, 0).pos, 1)
    ELSE LET action == At(actions, i)
             next   == At(actions, i + 1)
         IN  IF time_ms > action.at /\ time_ms < next.at
             THEN Frac(action.pos * (next.at - action.at)
                         + (time_ms - action.at) * (next.pos - action.pos),
                       next.at - action.at)
             ELSE IF action.at = time_ms THEN Frac(action.pos, 1)
                  ELSE PositionScan_FallToFirst(actions, i + 1, time_ms)

\* GetPositionAtTime, lines 153-172: the scan from index i on.
RECURSIVE PositionScan(_, _, _)
PositionScan(actions, i, time_ms) ==
    IF i >= Size(actions) - 1 THEN Frac(At(actions, Size(actions) - 1).pos, 1)
    ELSE LET action == At(actions, i)
             next   == At(actions, i + 1)
         IN  IF time_ms > action.at /\ time_ms < next.at
             THEN Frac(action.pos * (next.at - action.at)
                         + (time_ms - action.at) * (next.pos - action.pos),
                       next.at - action.at)
             ELSE IF action.at = time_ms THEN Frac(action.pos, 1)
                  ELSE PositionScan(actions, i + 1, time_ms)

GetPositionAtTime(s, time_ms) ==
    IF Size(s.Actions) = 0 THEN Frac(0, 1)
    ELSE IF Size(s.Actions) = 1 THEN Frac(At(s.Actions, 0).pos, 1)
         ELSE PositionScan(s.Actions, StartIndex(s, time_ms), time_ms)

\* ------------------------------------------------------- store mutations
\* std::remove_if on a vector of trivially copyable elements: the kept
\* elements move to the front, the tail keeps what it held.
RemoveIfRaw(seq, matching) ==
    LET kept == SelectSeq(seq, LAMBDA x : x \notin matching)
    IN  [seq |-> kept \o SubSeq(seq, Len(kept) + 1, Len(seq)), newEnd |-> Len(kept)]

checkForInvalidatedActions(s) ==
    LET r == RemoveIfRaw(s.selection,
                         {selected \in Elems(s.selection) : getAction(s, selected) = Null})
    IN  IF r.newEnd # Size(s.selection)
        THEN NotifySelectionChanged([s EXCEPT !.selection = EraseAt(r.seq, r.newEnd)])
        ELSE s

\* AddActionSafe with the duplicate search started at the insertion point
\* instead of one element before it.
AddActionSafe_SearchFromIt(s, newAction) ==
    LET it     == FindIf(s.Actions, 0, {action \in Elems(s.Actions) : newAction.at < action.at})
        safety == FindIf(s.Actions, it, {action \in Elems(s.Actions) : newAction.at = action.at})
    IN  IF safety = Size(s.Actions)
        THEN NotifyActionsChanged([s EXCEPT !.Actions = InsertAt(s.Actions, it, newAction)], TRUE)
        ELSE s

AddActionSafe(s, newAction) ==
    LET it     == FindIf(s.Actions, 0, {action \in Elems(s.Actions) : newAction.at < action.at})
        from   == IF it > 0 THEN it - 1 ELSE 0
        safety == FindIf(s.Actions, from, {action \in Elems(s.Actions) : newAction.at = action.at})
    IN  IF safety = Size(s.Actions)
        THEN NotifyActionsChanged([s EXCEPT !.Actions = InsertAt(s.Actions, it, newAction)], TRUE)
        ELSE s

\* AddAction: the unconditional ordered insert.
AddAction(s, newAction) ==
    LET it == FindIf(s.Actions, 0, {action \in Elems(s.Actions) : newAction.at < action.at})
    IN  NotifyActionsChanged([s EXCEPT !.Actions = InsertAt(s.Actions, it, newAction)], TRUE)

RemoveAction(s, action, checkInvalidSelection) ==
    LET it == FindIf(s.Actions, 0, {a \in Elems(s.Actions) : a = action})
    IN  IF it # Size(s.Actions)
        THEN LET s1 == NotifyActionsChanged([s EXCEPT !.Actions = EraseAt(s.Actions, it)], TRUE)
             IN  IF checkInvalidSelection THEN checkForInvalidatedActions(s1) ELSE s1
        ELSE s

RECURSIVE RemoveEach(_, _)
RemoveEach(s, removeActions) ==
    IF removeActions = <<>> THEN s
    ELSE RemoveEach(RemoveAction(s, Head(removeActions), FALSE), Tail(removeActions))

RemoveActions(s, removeActions) ==
    checkForInvalidatedActions(NotifyActionsChanged(RemoveEach(s, removeActions), TRUE))

\* RemoveActionsInInterval with the lower end of the interval left out.
RemoveActionsInInterval_OpenFrom(s, fromMs, toMs) ==
    LET s1 == [s EXCEPT !.Actions =
                  RemoveIf(s.Actions,
                           {action \in Elems(s.Actions) :
                               action.at > fromMs /\ action.at <= toMs})]
    IN  NotifyActionsChanged(checkForInvalidatedActions(s1), TRUE)

RemoveActionsInInterval(s, fromMs, toMs) ==
    LET s1 == [s EXCEPT !.Actions =
                  RemoveIf(s.Actions,
                           {action \in Elems(s.Actions) :
                               action.at >= fromMs /\ action.at <= toMs})]
    IN  NotifyActionsChanged(checkForInvalidatedActions(s1), TRUE)

SetActions(s, override_with) ==
    NotifyActionsChanged([s EXCEPT !.Actions = sortActions(override_with)], TRUE)

\* AddActionRange: with checkDuplicates the elements of range that are not
\* in the set made of the store's actions before the call are pushed back;
\* the set is not added to.  The store is sorted afterwards.
AddActionRange(s, range, checkDuplicates) ==
    LET set    == Elems(s.Actions)
        pushed == IF checkDuplicates
                  THEN SelectSeq(range, LAMBDA action : action \notin set)
                  ELSE range
    IN  NotifyActionsChanged([s EXCEPT !.Actions = sortActions(s.Actions \o pushed)], TRUE)

EditAction(s, oldAction, newAction) ==
    LET act == getAction(s, oldAction)
    IN  IF act # Null
        THEN [ret |-> TRUE,
              s |-> NotifyActionsChanged(checkForInvalidatedActions(
                        [s EXCEPT !.Actions[act + 1] = newAction]), TRUE)]
        ELSE [ret |-> FALSE, s |-> s]

AddEditAction(s, action, frameTimeMs) ==
    LET close == getActionAtTime(s, action.at, frameTimeMs)
    IN  IF close # Null
        THEN checkForInvalidatedActions(NotifyActionsChanged(
                 [s EXCEPT !.Actions[close + 1] = action], TRUE))
        ELSE AddAction(s, action)

PasteAction(s, paste, error_ms) ==
    LET act == getActionAtTime(s, paste.at, error_ms)
        s1  == IF act # Null THEN RemoveAction(s, At(s.Actions, act), TRUE) ELSE s
    IN  NotifyActionsChanged(AddAction(s1, paste), TRUE)

\* ------------------------------------------------------------ selection
sortSelection(s) == [s EXCEPT !.selection = sortActions(s.selection)]

ToggleSelection(s, action) ==
    LET it          == FindIf(s.selection, 0, {a \in Elems(s.selection) : a = action})
        is_selected == it # Size(s.selection)
    IN  [ret |-> ~is_selected,
         s   |-> NotifySelectionChanged(
                   [s EXCEPT !.selection = IF is_selected THEN EraseAt(s.selection, it)
                                           ELSE Append(s.selection, action)])]

\* The loop of SelectTime over data.Actions from index i on.
RECURSIVE SelectTimeLoop(_, _, _, _)
SelectTimeLoop(s, i, from_ms, to_ms) ==
    IF i >= Size(s.Actions) THEN s
    ELSE LET action == At(s.Actions, i)
         IN  IF action.at >= from_ms /\ action.at <= to_ms
             THEN SelectTimeLoop(ToggleSelection(s, action).s, i + 1, from_ms, to_ms)
             ELSE IF action.at > to_ms THEN s
                  ELSE SelectTimeLoop(s, i + 1, from_ms, to_ms)

SelectTime(s, from_ms, to_ms, clear) ==
    LET s1 == IF clear THEN ClearSelection(s) ELSE s
        s2 == SelectTimeLoop(s1, 0, from_ms, to_ms)
        s3 == IF ~clear THEN sortSelection(s2) ELSE s2
    IN  NotifySelectionChanged(s3)

SetSelection(s, action, selected) ==
    LET it          == FindIf(s.selection, 0, {a \in Elems(s.selection) : a = action})
        is_selected == it # Size(s.selection)
        s1 == IF is_selected /\ ~selected
              THEN [s EXCEPT !.selection = EraseAt(s.selection, it)]
              ELSE IF ~is_selected /\ selected
                   THEN sortSelection([s EXCEPT !.selection = Append(s.selection, action)])
                   ELSE s
    IN  NotifySelectionChanged(s1)

\* std::min_element over the distance to time_ms: the index of the first of
\* the actions nearest to time_ms, end() (the size) for an empty store.
NearestElement(actions, time_ms) ==
    IF Size(actions) = 0 THEN 0
    ELSE CHOOSE i \in 0..(Size(actions) - 1) :
             \A j \in 0..(Size(actions) - 1) :
                 /\ Abs(At(actions, i).at - time_ms) <= Abs(At(actions, j).at - time_ms)
                 /\ Abs(At(actions, i).at - time_ms) = Abs(At(actions, j).at - time_ms)
                       => i <= j

\* GetLastStroke: the stroke before the one the action nearest to time_ms
\* ends, latest action first.  With the nearest action at begin(), it - 1 is
\* not begin() and (it - 1)->pos reads the element before the first: what is
\* returned then is undefined, which outOfBounds reports.
GetLastStroke(s, time_ms) ==
    LET actions == s.Actions
        it0     == NearestElement(actions, time_ms)
        none    == [outOfBounds |-> FALSE, stroke |-> <<>>]
    IN  IF it0 = Size(actions) \/ it0 - 1 = 0 THEN none
        ELSE IF it0 - 1 < 0 THEN [outOfBounds |-> TRUE, stroke |-> <<>>]
        ELSE LET goingUp == At(actions, it0 - 1).pos > At(actions, it0).pos
                 RECURSIVE Search(_, _, _)
                 Search(searchIt, prevPos, it) ==
                     IF searchIt = 0 THEN it
                     ELSE IF (At(actions, searchIt - 1).pos > prevPos) # goingUp THEN it
                     ELSE IF /\ At(actions, searchIt - 1).pos = prevPos
                             /\ At(actions, searchIt - 1).pos # At(actions, searchIt).pos
                          THEN it
                     ELSE Search(searchIt - 1, At(actions, searchIt - 1).pos, searchIt)
                 it1 == Search(it0 - 1, At(actions, it0 - 1).pos, it0) - 1
                 RECURSIVE Collect(_, _, _)
                 Collect(it, prevPos, stroke) ==
                     LET up == At(actions, it).pos > prevPos
                     IN  IF up # ~goingUp THEN stroke
                         ELSE IF At(actions, it).pos = prevPos THEN stroke
                         ELSE IF it = 0 THEN Append(stroke, At(actions, it))
                         ELSE Collect(it - 1, At(actions, it).pos,
                                      Append(stroke, At(actions, it)))
             IN  IF it1 = 0 THEN none
                 ELSE [outOfBounds |-> FALSE,
                       stroke |-> Collect(it1 - 1, At(actions, it1).pos,
                                          <<At(actions, it1)>>)]

\* SelectTopActions that returns early only for fewer than two selected
\* actions.
SelectTopActions_FewerThanTwo(s) ==
    IF Size(s.selection) < 2 THEN s ELSE NotifySelectionChanged(s)

\* SelectTopActions: of every three neighbours of the selection, the lower of
\* the first two is deselected, and the third as well unless it is higher than
\* that one.
SelectTopActions(s) ==
    IF Size(s.selection) < 3 THEN s
    ELSE LET RECURSIVE Lower(_)
             Lower(i) ==
                 IF i >= Size(s.selection) - 1 THEN <<>>
                 ELSE LET prev    == At(s.selection, i - 1)
                          current == At(s.selection, i)
                          next    == At(s.selection, i + 1)
                          min1    == IF prev.pos < current.pos THEN prev ELSE current
                          min2    == IF min1.pos < next.pos THEN min1 ELSE next
                      IN  <<min1>> \o (IF min1.at # min2.at THEN <<min2>> ELSE <<>>)
                                   \o Lower(i + 1)
             RECURSIVE Deselect(_, _)
             Deselect(s1, deselect) ==
                 IF deselect = <<>> THEN s1
                 ELSE Deselect(SetSelection(s1, Head(deselect), FALSE), Tail(deselect))
         IN  NotifySelectionChanged(Deselect(s, Lower(1)))

SelectBottomActions(s) ==
    IF Size(s.selection) < 3 THEN s
    ELSE LET RECURSIVE Higher(_)
             Higher(i) ==
                 IF i >= Size(s.selection) - 1 THEN <<>>
                 ELSE LET prev    == At(s.selection, i - 1)
                          current == At(s.selection, i)
                          next    == At(s.selection, i + 1)
                          max1    == IF prev.pos > current.pos THEN prev ELSE current
                          max2    == IF max1.pos > next.pos THEN max1 ELSE next
                      IN  <<max1>> \o (IF max1.at # max2.at THEN <<max2>> ELSE <<>>)
                                   \o Higher(i + 1)
             RECURSIVE Deselect(_, _)
             Deselect(s1, deselect) ==
                 IF deselect = <<>> THEN s1
                 ELSE Deselect(SetSelection(s1, Head(deselect), FALSE), Tail(deselect))
         IN  NotifySelectionChanged(Deselect(s, Higher(1)))

\* SelectMidActions: what SelectTopActions and SelectBottomActions each keep of
\* the selection is taken out of it.
SelectMidActions(s) ==
    IF Size(s.selection) < 3 THEN s
    ELSE LET selectionCopy == s.selection
             top           == SelectTopActions(s)
             topPoints     == top.selection
             bottom        == SelectBottomActions([top EXCEPT !.selection = selectionCopy])
             bottomPoints  == bottom.selection
             kept          == SelectSeq(selectionCopy,
                                  LAMBDA val : ~(Contains(topPoints, val)
                                                 \/ Contains(bottomPoints, val)))
         IN  NotifySelectionChanged(sortSelection([bottom EXCEPT !.selection = kept]))

SelectAction(s, select) ==
    IF getAction(s, select) # Null
    THEN LET t == ToggleSelection(s, select)
         IN  NotifySelectionChanged(IF t.ret THEN sortSelection(t.s) ELSE t.s)
    ELSE s

SelectAll(s) ==
    NotifySelectionChanged([ClearSelection(s) EXCEPT !.selection = s.Actions])

\* HasSelection: the selection is not empty.
HasSelection(s) == Size(s.selection) > 0

\* getNextActionAhead: a pointer (index) to the first action after time_ms.
getNextActionAhead(s, time_ms) ==
    IF ~s.SplineNeedsUpdate
    THEN LET indexIt == UpperBound(s.ActionMap, time_ms)
         IN  IF indexIt.found /\ indexIt.first > time_ms THEN indexIt.second ELSE Null
    ELSE LET it == FindIf(s.Actions, 0, {action \in Elems(s.Actions) : action.at > time_ms})
         IN  IF it # Size(s.Actions) THEN it ELSE Null

\* getPreviousActionBehind: with a valid index, the action one slot before
\* the upper bound; otherwise the last action in store order before time_ms.
getPreviousActionBehind(s, time_ms) ==
    IF ~s.SplineNeedsUpdate
    THEN LET indexIt == UpperBound(s.ActionMap, time_ms)
         IN  IF indexIt.found /\ indexIt.second > 0 THEN indexIt.second - 1 ELSE Null
    ELSE LET behind == {i \in 0..(Size(s.Actions) - 1) : At(s.Actions, i).at < time_ms}
         IN  IF behind # {} THEN CHOOSE i \in behind : \A j \in behind : j <= i
             ELSE Null

Min(a, b) == IF a < b THEN a ELSE b
Max(a, b) == IF a > b THEN a ELSE b

\* Util::Clamp
Clamp(v, lo, hi) == Max(Min(v, hi), lo)

\* Pointers to every action of the store, in store order.
AllActions(s) == [i \in 1..Size(s.Actions) |-> i - 1]

RemoveSelectedActions(s) ==
    NotifySelectionChanged(ClearSelection(RemoveActions(s, s.selection)))

\* for (auto move : moving) move->at += time_offset, from the k-th pointer on;
\* select re-adds each moved action to the selection.
RECURSIVE MoveEachTime(_, _, _, _, _)
MoveEachTime(s, moving, k, time_offset, select) ==
    IF k > Len(moving) THEN s
    ELSE LET m     == moving[k] + 1
             moved == [s.Actions[m] EXCEPT !.at = @ + time_offset]
             s1    == [s EXCEPT !.Actions[m] = moved,
                                !.selection = IF select THEN Append(@, moved) ELSE @]
         IN  MoveEachTime(s1, moving, k + 1, time_offset, select)

RECURSIVE MoveEachPosition(_, _, _, _, _)
MoveEachPosition(s, moving, k, pos_offset, select) ==
    IF k > Len(moving) THEN s
    ELSE LET m     == moving[k] + 1
             moved == [s.Actions[m] EXCEPT !.pos = Clamp(@ + pos_offset, 0, 100)]
             s1    == [s EXCEPT !.Actions[m] = moved,
                                !.selection = IF select THEN Append(@, moved) ELSE @]
         IN  MoveEachPosition(s1, moving, k + 1, pos_offset, select)

moveActionsTime(s, moving, time_offset) ==
    NotifyActionsChanged(MoveEachTime(ClearSelection(s), moving, 1, time_offset, FALSE), TRUE)

moveActionsPosition(s, moving, pos_offset) ==
    NotifyActionsChanged(MoveEachPosition(ClearSelection(s), moving, 1, pos_offset, FALSE), TRUE)

\* The pointers getAction finds for the members of the selection, in
\* selection order.
RECURSIVE SelectedPointers(_, _)
SelectedPointers(s, k) ==
    IF k > Len(s.selection) THEN <<>>
    ELSE LET m == getAction(s, s.selection[k])
         IN  (IF m # Null THEN <<m>> ELSE <<>>) \o SelectedPointers(s, k + 1)

MoveSelectionTime(s, time_offset, frameTimeMs) ==
    IF ~HasSelection(s) THEN s
    ELSE IF Size(s.selection) = Size(s.Actions)
         THEN SelectAll(moveActionsTime(s, AllActions(s), time_offset))
         ELSE LET front  == At(s.selection, 0)
                  back   == At(s.selection, Size(s.selection) - 1)
                  prev   == getPreviousActionBehind(s, front.at)
                  next   == getNextActionAhead(s, back.at)
                  offset == IF time_offset > 0
                            THEN IF next # Null
                                 THEN Min(time_offset,
                                          (At(s.Actions, next).at - frameTimeMs) - back.at)
                                 ELSE time_offset
                            ELSE IF prev # Null
                                 THEN Max(time_offset,
                                          (At(s.Actions, prev).at + frameTimeMs) - front.at)
                                 ELSE time_offset
                  moving == SelectedPointers(s, 1)
              IN  NotifyActionsChanged(
                      MoveEachTime(ClearSelection(s), moving, 1, offset, TRUE), TRUE)

MoveSelectionPosition(s, pos_offset) ==
    IF ~HasSelection(s) THEN s
    ELSE IF Size(s.selection) = Size(s.Actions)
         THEN SelectAll(moveActionsPosition(s, AllActions(s), pos_offset))
         ELSE NotifyActionsChanged(
                  MoveEachPosition(ClearSelection(s), SelectedPointers(s, 1), 1,
                                   pos_offset, TRUE), TRUE)

RECURSIVE AddEach(_, _)
AddEach(s, actions) ==
    IF actions = <<>> THEN s
    ELSE AddEach(AddAction(s, Head(actions)), Tail(actions))

\* ---- 32-bit float arithmetic on the values EqualizeSelection computes.
\* A float >= 0 is the record [m, k] with value m / 2^k, m of at most 24 bits.
\* The quotient n/d (n >= 0, d > 0) rounded to an integer, ties to even: the
\* rounding of every float operation.
RoundHalfEven(n, d) ==
    LET q == n \div d
        r == n % d
    IN  IF 2 * r > d \/ (2 * r = d /\ q % 2 = 1) THEN q + 1 ELSE q

\* The float a / b of two floats holding the integers a >= 0 and b > 0
\* (duration / (float)(size - 1)): the quotient rounded to 24 bits.
FloatDiv(a, b) ==
    IF a = 0 THEN [m |-> 0, k |-> 0]
    ELSE LET RECURSIVE Exponent(_)
             Exponent(k) == IF a * 2^k >= 2^23 * b THEN k ELSE Exponent(k + 1)
             k == Exponent(0)
         IN  [m |-> RoundHalfEven(a * 2^k, b), k |-> k]

\* The float i * f of the int i >= 0 converted to float and the float f
\* (i * stepMs): the product rounded to 24 bits.
FloatMul(i, f) ==
    LET n == i * f.m
        RECURSIVE Shift(_)
        Shift(sh) == IF n < 2^24 * 2^sh \/ sh = f.k THEN sh ELSE Shift(sh + 1)
        sh == Shift(0)
    IN  [m |-> RoundHalfEven(n, 2^sh), k |-> f.k - sh]

\* std::round of a float >= 0, as an integer: halves go away from zero.
Round(f) == (2 * f.m + 2^f.k) \div (2 * 2^f.k)

EqualizeSelection(s) ==
    IF Size(s.selection) < 3 THEN s
    ELSE LET s0    == sortSelection(s)
             n     == Size(s0.selection)
             first == At(s0.selection, 0)
             last  == At(s0.selection, n - 1)
             duration == last.at - first.at
             stepMs   == FloatDiv(duration, n - 1)
             copySelection ==
                 [k \in 1..n |->
                     IF k = 1 \/ k = n THEN s0.selection[k]
                     ELSE [s0.selection[k] EXCEPT
                               !.at = first.at + Round(FloatMul(k - 1, stepMs))]]
             removed == RemoveSelectedActions(s0)
             \* RemoveSelectedActions has emptied the selection, so the test
             \* below is always false; it only has the removal evaluated
             \* before the loop of AddAction starts.
             s1    == IF HasSelection(removed) THEN removed
                      ELSE AddEach(removed, copySelection)
         IN  [s1 EXCEPT !.selection = copySelection]

InvertSelection(s) ==
    IF Size(s.selection) = 0 THEN s
    ELSE LET copySelection ==
                 [k \in 1..Size(s.selection) |->
                     [s.selection[k] EXCEPT !.pos = Abs(@ - 100)]]
             s1 == AddEach(RemoveSelectedActions(s), copySelection)
         IN  [s1 EXCEPT !.selection = copySelection]

\* The integer a double n/d (d > 0) converts to: truncation towards zero.
Trunc(n, d) == IF n >= 0 THEN n \div d ELSE 0 - ((0 - n) \div d)

\* StretchPosition.  With highest = lowest the quotient is a division by
\* zero, and the conversion of the NaN or infinity it yields to int32 is
\* undefined: undef is the clamped value the build produces for it.
StretchPosition(position, lowest, highest, extension, undef) ==
    LET newHigh == Clamp(highest + extension, 0, 100)
        newLow  == Clamp(lowest - extension, 0, 100)
    IN  IF highest = lowest THEN undef
        ELSE Clamp(Trunc((position - lowest) * (newHigh - newLow)
                             + newLow * (highest - lowest),
                         highest - lowest), 0, 100)

\* for (int i = lastExtremeIndex + 1; i < index; i++) over the pointers.
RECURSIVE StretchRange(_, _, _, _, _, _, _, _)
StretchRange(store, actions, i, index, lowest, highest, rangeExtend, undef) ==
    IF i >= index THEN store
    ELSE LET m == At(actions, i) + 1
         IN  StretchRange(
                 [store EXCEPT ![m].pos =
                     StretchPosition(@, lowest, highest, rangeExtend, undef)],
                 actions, i + 1, index, lowest, highest, rangeExtend, undef)

\* The loop of ExtendRange from index on; st holds its local variables.
RECURSIVE ExtendLoop(_, _, _, _, _, _)
ExtendLoop(store, actions, index, st, rangeExtend, undef) ==
    IF index >= Size(actions) THEN store
    ELSE LET pos  == At(store, At(actions, index)).pos
             turn == /\ st.strokeDir # "NONE"
                     /\ \/ pos < st.lastValue /\ st.strokeDir = "UP"
                        \/ pos > st.lastValue /\ st.strokeDir = "DOWN"
                        \/ index = Size(actions) - 1
             store1 == IF turn
                       THEN StretchRange(store, actions, st.lastExtremeIndex + 1, index,
                                         st.lowest, st.highest, rangeExtend, undef)
                       ELSE store
             extreme == At(store1, At(actions, index - 1)).pos
             st1 == IF st.strokeDir = "NONE"
                    THEN [st EXCEPT !.strokeDir =
                             IF pos < st.lastExtremeValue THEN "DOWN"
                             ELSE IF pos > st.lastExtremeValue THEN "UP" ELSE "NONE"]
                    ELSE IF turn
                         THEN [st EXCEPT !.lastExtremeValue = extreme,
                                         !.lastExtremeIndex = index - 1,
                                         !.highest = extreme, !.lowest = extreme,
                                         !.strokeDir = IF @ = "UP" THEN "DOWN" ELSE "UP"]
                         ELSE st
             st2 == [st1 EXCEPT !.lastValue = pos,
                                !.highest = Max(@, pos), !.lowest = Min(@, pos)]
         IN  ExtendLoop(store1, actions, index + 1, st2, rangeExtend, undef)

\* ExtendRange with a zero rangeExtend taken for the full extension instead of
\* returning at once.
ExtendRange_ZeroExtends(store, actions, rangeExtend, undef) ==
    LET lastValue == At(store, At(actions, 0)).pos
    IN  ExtendLoop(store, actions, 0,
                   [lastExtremeIndex |-> 0, lastValue |-> lastValue,
                    lastExtremeValue |-> lastValue, lowest |-> lastValue,
                    highest |-> lastValue, strokeDir |-> "NONE"],
                   IF rangeExtend = 0 THEN 100 ELSE rangeExtend, undef)

ExtendRange(store, actions, rangeExtend, undef) ==
    IF rangeExtend = 0 THEN store
    ELSE LET lastValue == At(store, At(actions, 0)).pos
         IN  ExtendLoop(store, actions, 0,
                        [lastExtremeIndex |-> 0, lastValue |-> lastValue,
                         lastExtremeValue |-> lastValue, lowest |-> lastValue,
                         highest |-> lastValue, strokeDir |-> "NONE"],
                        rangeExtend, undef)

\* The first selection slot from selectionOffset on that holds act, or Null.
SelectionSlot(s, act, selectionOffset) ==
    LET i == FindIf(s.selection, selectionOffset, {sel \in Elems(s.selection) : sel = act})
    IN  IF selectionOffset < Size(s.selection) /\ i # Size(s.selection) THEN i ELSE Null

\* The pointers RangeExtendSelection collects from store index k on.
RECURSIVE ExtendPointers(_, _, _)
ExtendPointers(s, k, selectionOffset) ==
    IF k >= Size(s.Actions) THEN <<>>
    ELSE LET i == SelectionSlot(s, At(s.Actions, k), selectionOffset)
         IN  IF i # Null THEN <<k>> \o ExtendPointers(s, k + 1, i)
             ELSE ExtendPointers(s, k + 1, selectionOffset)

RangeExtendSelection(s, rangeExtend, undef) ==
    LET rangeExtendSelection == ExtendPointers(s, 0, 0)
    IN  IF Size(rangeExtendSelection) = 0 THEN s
        ELSE LET s1 == ClearSelection(s)
             IN  [s1 EXCEPT !.Actions =
                     ExtendRange(s1.Actions, rangeExtendSelection, rangeExtend, undef)]

\* ---------------------------------------------------------- notification
FunscriptActionsChangedEvent == "FunscriptActionsChangedEvent"
FunscriptSelectionChangedEvent == "FunscriptSelectionChangedEvent"

\* update() that forgets to lower the selection flag.
update_SelectionFlagKept(s) ==
    LET s1 == IF s.funscriptChanged
              THEN [s EXCEPT !.funscriptChanged = FALSE,
                             !.Actions = sortActions(s.Actions)]
              ELSE s
        e1 == IF s.funscriptChanged THEN <<FunscriptActionsChangedEvent>> ELSE <<>>
        e2 == IF s1.selectionChanged THEN <<FunscriptSelectionChangedEvent>> ELSE <<>>
    IN  [s |-> s1, pushed |-> e1 \o e2]

\* update(): the object afterwards and the events pushed, in push order.
update(s) ==
    LET s1 == IF s.funscriptChanged
              THEN [s EXCEPT !.funscriptChanged = FALSE,
                             !.Actions = sortActions(s.Actions)]
              ELSE s
        e1 == IF s.funscriptChanged THEN <<FunscriptActionsChangedEvent>> ELSE <<>>
        s2 == IF s1.selectionChanged THEN [s1 EXCEPT !.selectionChanged = FALSE] ELSE s1
        e2 == IF s1.selectionChanged THEN <<FunscriptSelectionChangedEvent>> ELSE <<>>
    IN  [s |-> s2, pushed |-> e1 \o e2]

\* The index is rebuilt by the first query after an invalidation.
SplineUpdate(s) ==
    [s EXCEPT !.ActionMap = BuildActionMap(s.Actions), !.SplineNeedsUpdate = FALSE]

\* --------------------------------------------------------- undo/redo log
\* enum class StateType, in declaration order.
StateTypes ==
    <<"ADD_EDIT_ACTIONS", "ADD_EDIT_ACTION", "ADD_ACTION", "REMOVE_ACTIONS",
      "REMOVE_ACTION", "MOUSE_MOVE_ACTION", "ACTIONS_MOVED", "CUT_SELECTION",
      "REMOVE_SELECTION", "PASTE_COPIED_ACTIONS", "EQUALIZE_ACTIONS",
      "INVERT_ACTIONS", "ISOLATE_ACTION", "TOP_POINTS_ONLY", "MID_POINTS_ONLY",
      "BOTTOM_POINTS_ONLY", "GENERATE_ACTIONS", "FRAME_ALIGN", "RANGE_EXTEND">>

TOTAL_UNDOSTATE_TYPES == Len(StateTypes)

\* A bound that lets one more snapshot in.
MaxScriptStateInMemory_OneMore == 1000 + 1

MaxScriptStateInMemory == 1000

\* Snapshot's default argument.
DefaultClearRedo_False == FALSE

DefaultClearRedo == TRUE

\* Funscript::FunscriptData of an object: the actions and the selection.
FunscriptData(s) == [Actions |-> s.Actions, selection |-> s.selection]

\* A ScriptState that copies the actions and leaves the selection out.
ScriptState_ActionsOnly(type, data) ==
    [type |-> type, data |-> [Actions |-> data.Actions, selection |-> <<>>]]

\* ScriptState(type, data): the tag and a copy of the data.
ScriptState(type, data) == [type |-> type, data |-> data]

\* The log as one record, as the object above.
CurLog == [UndoStack |-> UndoStack, RedoStack |-> RedoStack]

\* Snapshot(type, clearRedo) of the data `data`.
Snapshot(u, type, clearRedo, data) ==
    LET pushed == Append(u.UndoStack, ScriptState(type, data))
        kept   == IF Len(pushed) > MaxScriptStateInMemory THEN Tail(pushed) ELSE pushed
    IN  [UndoStack |-> kept,
         RedoStack |-> IF clearRedo THEN <<>> ELSE u.RedoStack]

\* SnapshotRedo(type): the current data goes on the redo stack.
SnapshotRedo(u, type, data) ==
    [u EXCEPT !.RedoStack = Append(u.RedoStack, ScriptState(type, data))]

\* The live data is replaced by a snapshot's.
rollback(s, data) ==
    NotifySelectionChanged(NotifyActionsChanged(
        [s EXCEPT !.Actions = data.Actions, !.selection = data.selection], TRUE))

\* Undo(): the log and the object afterwards.
Undo(u, s) ==
    IF u.UndoStack = <<>> THEN [u |-> u, s |-> s]
    ELSE LET top == u.UndoStack[Len(u.UndoStack)]
             u1  == SnapshotRedo(u, top.type, FunscriptData(s))
         IN  [u |-> [u1 EXCEPT !.UndoStack = SubSeq(u.UndoStack, 1, Len(u.UndoStack) - 1)],
              s |-> rollback(s, top.data)]

\* Redo(): the log and the object afterwards.
Redo(u, s) ==
    IF u.RedoStack = <<>> THEN [u |-> u, s |-> s]
    ELSE LET top == u.RedoStack[Len(u.RedoStack)]
             u1  == Snapshot(u, top.type, FALSE, FunscriptData(s))
         IN  [u |-> [u1 EXCEPT !.RedoStack = SubSeq(u.RedoStack, 1, Len(u.RedoStack) - 1)],
              s |-> rollback(s, top.data)]

\* LuaUndo with MatchUndoTop looking at the oldest snapshot.
MatchUndoTop_Oldest(u, type) ==
    u.UndoStack # <<>> /\ u.UndoStack[1].type = type

MatchUndoTop(u, type) ==
    u.UndoStack # <<>> /\ u.UndoStack[Len(u.UndoStack)].type = type

\* The kind of the snapshots the script host takes.
CUSTOM_LUA == "CUSTOM_LUA"

\* LuaUndo: an undo if the top snapshot is the script host's; undo is what is
\* pushed to the script, the result of Undo(), true for an undo that was made.
LuaUndo(u, s) ==
    IF MatchUndoTop(u, CUSTOM_LUA)
    THEN LET r == Undo(u, s)
         IN  [undo |-> u.UndoStack # <<>>, u |-> r.u, s |-> r.s]
    ELSE [undo |-> FALSE, u |-> u, s |-> s]

\* ------------------------------------------------------------------ saving
\* A JSON object is a function from its keys to their values.  The values of
\* the objects met here are scalars and arrays, which merge_patch replaces.
EmptyObject == [k \in {} |-> 0]

Put(obj, key, value) ==
    [k \in (DOMAIN obj) \cup {key} |-> IF k = key THEN value ELSE obj[k]]

merge_patch(target, patch) ==
    [k \in (DOMAIN target) \cup (DOMAIN patch) |->
        IF k \in DOMAIN patch THEN patch[k] ELSE target[k]]

\* The keys setBaseScript erases from the loaded script.
GeneratedKeys == {"actions", "version", "inverted", "range", "OpenFunscripter", "metadata"}

\* setBaseScript, after the assignment of base to BaseLoaded: the erases.
EraseGenerated(base) == [k \in (DOMAIN base) \ GeneratedKeys |-> base[k]]

\* What the save thread writes for an action: at and the clamped pos.
ActionObj(action) == [at |-> action.at, pos |-> Clamp(action.pos, 0, 100)]

\* The save thread from the lock to the write: the canonical fields are set,
\* base is merged over them and the valid actions are appended to "actions".
AssembleJson(jsonObj, actions, base) ==
    LET canonical == Put(Put(Put(Put(jsonObj, "actions", <<>>), "version", "1.0"),
                             "inverted", FALSE), "range", 100)
        merged    == merge_patch(canonical, base)
        RECURSIVE Emplace(_)
        Emplace(i) ==
            IF i > Len(actions) THEN <<>>
            ELSE (IF actions[i].at < 0 THEN <<>> ELSE <<ActionObj(actions[i])>>)
                 \o Emplace(i + 1)
    IN  [merged EXCEPT !["actions"] = @ \o Emplace(1)]

\* No file written yet.
NoFile == "none"

\* startSaveThread: SaveThreadData is filled in and the thread created.
\* jsonObj, actions and path are the thread's own; base points to BaseLoaded.
\* captured keeps what the three and BaseLoaded were at this moment.
startSaveThread(v, path, actions, json) ==
    [v EXCEPT !.workers =
        Append(@, [pc |-> "created", jsonObj |-> json, actions |-> actions,
                   path |-> path,
                   captured |-> [jsonObj |-> json, actions |-> actions,
                                 base |-> v.BaseLoaded]])]

\* The save thread that does not wait for the mutex.
SaveFunscriptThread_NoWait(v, w) ==
    LET data == v.workers[w]
    IN  CASE data.pc = "created" ->
                 [v EXCEPT !.workers[w].pc = "locked"]
          [] data.pc = "locked" ->
                 [v EXCEPT !.workers[w].jsonObj =
                               AssembleJson(data.jsonObj, data.actions, v.BaseLoaded),
                           !.workers[w].pc = "assembled"]
          [] data.pc = "assembled" ->
                 [v EXCEPT !.file = data.jsonObj, !.workers[w].pc = "written"]
          [] data.pc = "written" ->
                 [v EXCEPT !.mutex = 0, !.workers[w].pc = "done"]
          [] OTHER -> v

\* One step of save thread w: SDL_LockMutex, which waits while another thread
\* holds the mutex; the assembly of the JSON, reading *data->base; WriteJson;
\* SDL_UnlockMutex and the end of the thread.
SaveFunscriptThread(v, w) ==
    LET data == v.workers[w]
    IN  CASE data.pc = "created" ->
                 IF v.mutex = 0
                 THEN [v EXCEPT !.mutex = w, !.workers[w].pc = "locked"]
                 ELSE v
          [] data.pc = "locked" ->
                 [v EXCEPT !.workers[w].jsonObj =
                               AssembleJson(data.jsonObj, data.actions, v.BaseLoaded),
                           !.workers[w].pc = "assembled"]
          [] data.pc = "assembled" ->
                 [v EXCEPT !.file = data.jsonObj, !.workers[w].pc = "written"]
          [] data.pc = "written" ->
                 [v EXCEPT !.mutex = 0, !.workers[w].pc = "done"]
          [] OTHER -> v

\* The Funscript constructor: the mutex is created, free; nothing is loaded
\* and no save thread runs.  setting: setBaseScript has assigned BaseLoaded
\* and not yet erased from it.
InitSave ==
    save = [BaseLoaded |-> EmptyObject, setting |-> FALSE, mutex |-> 0,
            workers |-> <<>>, file |-> NoFile]

\* Nothing recorded about a round trip; no snapshot taken yet.
NoShot == [phase |-> "idle"]

InitUndo ==
    /\ UndoStack = <<>>
    /\ RedoStack = <<>>
    /\ shot = NoShot
    \* hist: how many snapshots were made in all, and how many since the last
    \* undo or redo.
    /\ hist = [count |-> 0, consecutive |-> 0]

\* --------------------------------------------------------------- steps
\* The Funscript constructor: empty data, NotifyActionsChanged(false).
Init ==
    /\ Actions = <<>>
    /\ selection = <<>>
    /\ funscriptChanged = TRUE
    /\ selectionChanged = FALSE
    /\ SplineNeedsUpdate = TRUE
    /\ ActionMap = EmptyMap
    /\ events = <<>>
    /\ lastOp = "Funscript"
    /\ ret = NoResult
    /\ InitUndo
    /\ InitSave
    /\ InitEvents
    /\ InitLua

\* ------------------------------------------- the store under insert/remove
NextStore ==
    \/ \E a \in ActionInputs :
           /\ Size(Actions) < MaxActions
           /\ Becomes(AddActionSafe(Cur, a))
           /\ lastOp' = "AddActionSafe"
           /\ UNCHANGED <<ret, undoVars, save, handlers, lua>>
           /\ UNCHANGED events
    \/ \E a \in ActionInputs :
           /\ Becomes(RemoveAction(Cur, a, TRUE))
           /\ lastOp' = "RemoveAction"
           /\ UNCHANGED <<ret, undoVars, save, handlers, lua>>
           /\ UNCHANGED events
    \/ \E fromMs \in Times, toMs \in Times :
           /\ Becomes(RemoveActionsInInterval(Cur, fromMs, toMs))
           /\ lastOp' = "RemoveActionsInInterval"
           /\ ret' = [op |-> "RemoveActionsInInterval", fromMs |-> fromMs,
                      toMs |-> toMs, size |-> Size(Actions)]
           /\ UNCHANGED <<events, undoVars, save, handlers, lua>>

SpecStore == Init /\ [][NextStore]_vars

\* C1: under any sequence of AddActionSafe, RemoveAction and
\* RemoveActionsInInterval calls from the empty store, the action sequence is
\* strictly increasing by timestamp, so no two actions share a timestamp.
SortInvariant ==
    /\ StrictlyIncreasing(Actions)
    /\ \A i, j \in 1..Len(Actions) : Actions[i].at = Actions[j].at => i = j

\* A store of MaxActions actions where the last call was a removal attempt or
\* an insert: the invariant's case (an insert between two actions) happened.
SortWitness ==
    /\ Len(Actions) = MaxActions
    /\ lastOp = "AddActionSafe"
    /\ Actions[2].at > 0

\* The actions of a store outside the interval fromMs..toMs, in store order.
OutsideInterval(actions, fromMs, toMs) ==
    LET Outside(action) == ~(action.at >= fromMs /\ action.at <= toMs)
    IN  SelectSeq(actions, Outside)

EditMaxTime == 2
EditMaxActions == 2

EditTimes == 0..EditMaxTime
EditInputs == {FunscriptAction(t, p) : t \in EditTimes, p \in {0, 100}}

\* Argument vectors of at most two actions.
EditVectors ==
    {<<>>} \cup {<<a>> : a \in EditInputs} \cup {<<a, b>> : a, b \in EditInputs}

\* Tolerances in milliseconds.
Tolerances == {0, 1}

EditBounded(s) ==
    /\ Size(s.Actions) <= EditMaxActions
    /\ Size(s.selection) <= EditMaxActions

EditStep(s) ==
    /\ EditBounded(s)
    /\ Becomes(s)
    /\ UNCHANGED <<events, lastOp, ret, undoVars, save, handlers, lua>>

NextEdit ==
    \/ \E a \in EditInputs :
           EditStep(AddActionSafe(Cur, a))
    \/ \E old \in EditInputs, new \in EditInputs :
           EditStep(EditAction(Cur, old, new).s)
    \/ \E a \in EditInputs, frameTimeMs \in Tolerances :
           EditStep(AddEditAction(Cur, a, frameTimeMs))
    \/ \E a \in EditInputs, error_ms \in Tolerances :
           EditStep(PasteAction(Cur, a, error_ms))
    \/ \E a \in EditInputs :
           EditStep(RemoveAction(Cur, a, TRUE))
    \/ \E v \in EditVectors :
           EditStep(RemoveActions(Cur, v))
    \/ \E fromMs \in EditTimes, toMs \in EditTimes :
           EditStep(RemoveActionsInInterval(Cur, fromMs, toMs))
    \/ \E v \in EditVectors :
           EditStep(SetActions(Cur, v))
    \/ \E range \in EditVectors, checkDuplicates \in BOOLEAN :
           EditStep(AddActionRange(Cur, range, checkDuplicates))
    \/ \E a \in EditInputs :
           EditStep(ToggleSelection(Cur, a).s)
    \/ \E a \in EditInputs :
           EditStep(SelectAction(Cur, a))
    \/ \E from_ms \in EditTimes, to_ms \in EditTimes, clear \in BOOLEAN :
           EditStep(SelectTime(Cur, from_ms, to_ms, clear))
    \/ EditStep(SelectAll(Cur))
    \/ SplineNeedsUpdate /\ EditStep(SplineUpdate(Cur))
    \* One frame of the main loop as the store sees it: update(), after which the
    \* event loop takes the pushed events off the SDL queue.
    \/ /\ Becomes(update(Cur).s)
       /\ UNCHANGED <<events, lastOp, ret, undoVars, save, handlers, lua>>

SpecEdit == Init /\ [][NextEdit]_vars

\* C2: after any sequence of store mutations interleaved with selections made
\* through SelectAction, SelectTime and SelectAll, every member of the
\* selection has a value-equal member in the action store.
SelectionSound ==
    \A i \in 1..Len(selection) : Contains(Actions, selection[i])

\* C6: AddActionSafe(a), called when the store already holds an action with
\* timestamp a.at, leaves the action sequence unchanged and does not raise the
\* actions-changed flag.
DuplicateRejected ==
    \A a \in EditInputs :
        (\E i \in 1..Len(Actions) : Actions[i].at = a.at) =>
            LET s == AddActionSafe(Cur, a)
            IN  /\ s.Actions = Actions
                /\ s.funscriptChanged = funscriptChanged

\* C13: EditAction(old, new) rewrites a slot only if the store holds an
\* action equal to old in timestamp and position; otherwise it returns false
\* and leaves the store, the selection and the change flags unchanged, with a
\* valid and with a stale spline index alike.
EditNeedsEqualAction ==
    \A old \in EditInputs, new \in EditInputs :
        ~Contains(Actions, old) =>
            /\ ~EditAction(Cur, old, new).ret
            /\ EditAction(Cur, old, new).s = Cur

\* C14: the sort invariant holds right after every mutation: after EditAction
\* or AddEditAction has changed an action's timestamp in a sorted store, the
\* store is strictly increasing by timestamp, with no duplicate timestamps.
SortedAfterEdit ==
    StrictlyIncreasing(Actions) =>
        /\ \A old \in EditInputs, new \in EditInputs :
              StrictlyIncreasing(EditAction(Cur, old, new).s.Actions)
        /\ \A a \in EditInputs, frameTimeMs \in Tolerances :
              StrictlyIncreasing(AddEditAction(Cur, a, frameTimeMs).Actions)

\* The entries of a selection that have a value-equal entry in a store, in
\* selection order.
StillStored(sel, actions) ==
    LET Stored(selected) == Contains(actions, selected)
    IN  SelectSeq(sel, Stored)

\* C16: when checkForInvalidatedActions returns, as invoked by
\* RemoveActionsInInterval, RemoveActions and RemoveAction, the selection is
\* the previous selection restricted to the entries that still have a
\* value-equal store entry: every stale entry is removed, however many there
\* are, and no surviving entry is dropped or duplicated.
StaleEntriesRemoved ==
    (\A i \in 1..Len(selection) : Contains(Actions, selection[i])) =>
        /\ \A fromMs \in EditTimes, toMs \in EditTimes :
              RemoveActionsInInterval(Cur, fromMs, toMs).selection
                  = StillStored(selection, RemoveActionsInInterval(Cur, fromMs, toMs).Actions)
        /\ \A v \in EditVectors :
              RemoveActions(Cur, v).selection
                  = StillStored(selection, RemoveActions(Cur, v).Actions)
        /\ \A a \in EditInputs :
              RemoveAction(Cur, a, TRUE).selection
                  = StillStored(selection, RemoveAction(Cur, a, TRUE).Actions)

\* C19: SelectTime(from, to, clear) leaves the selection equal to the set of
\* store actions with from <= timestamp <= to when clear is true, and to the
\* union of the previous selection and that set when clear is false (an
\* action already selected and inside the range stays selected), in
\* ascending timestamp order.
SelectTimeAddsRange ==
    (/\ StrictlyIncreasing(Actions)
     /\ StrictlyIncreasing(selection)
     /\ \A i \in 1..Len(selection) : Contains(Actions, selection[i])) =>
        \A from_ms \in EditTimes, to_ms \in EditTimes, clear \in BOOLEAN :
            LET selected == SelectTime(Cur, from_ms, to_ms, clear).selection
                inRange  == {action \in Elems(Actions) :
                                action.at >= from_ms /\ action.at <= to_ms}
            IN  /\ StrictlyIncreasing(selected)
                /\ Elems(selected)
                      = (IF clear THEN {} ELSE Elems(selection)) \cup inRange

\* C23: InvertSelection replaces the position p of every selected action by
\* 100 - p, leaves timestamps, unselected actions and the number of store
\* actions unchanged, keeps the same actions selected, and applied twice
\* restores the original store and selection.
InvertFlipsSelected ==
    LET once  == InvertSelection(Cur)
        twice == InvertSelection(once)
    IN  /\ once.selection = [k \in 1..Len(selection) |->
                                [selection[k] EXCEPT !.pos = 100 - @]]
        /\ \A k \in 1..Len(once.selection) : Contains(once.Actions, once.selection[k])
        /\ Len(once.Actions) = Len(Actions)
        /\ \A i \in 1..Len(Actions) :
              ~Contains(selection, Actions[i]) => Contains(once.Actions, Actions[i])
        /\ twice.Actions = Actions
        /\ twice.selection = selection

\* C31: after any sequence of selection operations (ToggleSelection,
\* SetSelection, SelectAction, SelectTime, SelectAll, the pattern selections)
\* and store mutations, the selection is strictly increasing by timestamp and
\* contains no action twice.
SelectionStaysOrdered ==
    /\ StrictlyIncreasing(selection)
    /\ \A i, j \in 1..Len(selection) : selection[i] = selection[j] => i = j

\* C32: AddActionRange(range, checkDuplicates = true) on a store with unique
\* timestamps leaves a store with unique timestamps: an element of range whose
\* timestamp is that of an existing action (with the same or another
\* position) or of another element of range does not make a second action at
\* that timestamp.
RangeKeepsTimestampsUnique ==
    StrictlyIncreasing(Actions) =>
        \A range \in EditVectors :
            StrictlyIncreasing(AddActionRange(Cur, range, TRUE).Actions)

\* ------------------------------------------------ deferred notification
NotifyMaxTime == 1
NotifyMaxCalls == 3

NotifyInputs == {FunscriptAction(t, 100 * (t % 2)) : t \in 0..NotifyMaxTime}

\* The calls made since the last update(), as ret counts them.
CallsPending == IF ret.op = "calls" THEN ret.calls ELSE 0

NotifyCall(s, op) ==
    /\ CallsPending < NotifyMaxCalls
    /\ Becomes(s)
    /\ lastOp' = op
    /\ ret' = [op |-> "calls", calls |-> CallsPending + 1]
    /\ UNCHANGED <<events, undoVars, save, handlers, lua>>

NextNotify ==
    \/ \E a \in NotifyInputs : NotifyCall(AddActionSafe(Cur, a), "AddActionSafe")
    \/ \E a \in NotifyInputs : NotifyCall(RemoveAction(Cur, a, TRUE), "RemoveAction")
    \/ \E a \in NotifyInputs : NotifyCall(SelectAction(Cur, a), "SelectAction")
    \/ NotifyCall(SelectAll(Cur), "SelectAll")
    \* update() with SDL_PushEvent appending to the event queue; ret records the
    \* flags it found, what it pushed and the call before it.
    \/ LET r == update(Cur)
       IN  /\ Size(events) + 2 <= MaxEvents
           /\ Becomes(r.s)
           /\ events' = events \o r.pushed
           /\ lastOp' = "update"
           /\ ret' = [op |-> "update", after |-> lastOp, calls |-> CallsPending,
                      funscriptChanged |-> funscriptChanged,
                      selectionChanged |-> selectionChanged, pushed |-> r.pushed]
           /\ UNCHANGED <<undoVars, save, handlers, lua>>
    \* SDL_PollEvent: the main loop takes the oldest event off the queue.
    \/ /\ events # <<>>
       /\ events' = Tail(events)
       /\ UNCHANGED <<Actions, selection, funscriptChanged, selectionChanged,
                      SplineNeedsUpdate, ActionMap, lastOp, ret, undoVars, save, handlers, lua>>

SpecNotify == Init /\ [][NextNotify]_vars

\* How many times event e occurs in a sequence of pushed events.
Pushed(pushed, e) == Cardinality({i \in 1..Len(pushed) : pushed[i] = e})

\* C9: one update() pushes exactly one actions-changed event if the
\* actions-changed flag was set and none otherwise, and exactly one
\* selection-changed event if the selection-changed flag was set and none
\* otherwise, however many calls were made since the previous update(); it
\* leaves both flags cleared, and an update() that directly follows an update()
\* pushes nothing.
UpdateCoalesces ==
    lastOp = "update" =>
        /\ Pushed(ret.pushed, FunscriptActionsChangedEvent)
               = (IF ret.funscriptChanged THEN 1 ELSE 0)
        /\ Pushed(ret.pushed, FunscriptSelectionChangedEvent)
               = (IF ret.selectionChanged THEN 1 ELSE 0)
        /\ Len(ret.pushed) = Pushed(ret.pushed, FunscriptActionsChangedEvent)
                               + Pushed(ret.pushed, FunscriptSelectionChangedEvent)
        /\ ~funscriptChanged
        /\ ~selectionChanged
        /\ ret.after = "update" => ret.pushed = <<>>

\* An update() that found both flags set after several calls.
UpdateCoalescesWitness ==
    /\ lastOp = "update"
    /\ ret.calls = NotifyMaxCalls
    /\ ret.funscriptChanged
    /\ ret.selectionChanged
    /\ Len(ret.pushed) = 2

\* --------------------------------------- the facade and the selection engine
SelMaxTime == 3
SelMaxActions == 3

SelTimes == 0..SelMaxTime

\* One action per timestamp, alternating between the bottom and the top.
SelInputs == {FunscriptAction(t, 100 * (t % 2)) : t \in SelTimes}

TimeOffsets == {0 - 1, 1}
PositionOffsets == {0 - 100, 100}
RangeExtends == {0 - 100, 0, 100}

\* What the conversion of a NaN or an infinity to int32 leaves after the
\* clamp to 0..100: the bottom or the top of the range.
UndefinedPositions == {0, 100}

SelBounded(s) ==
    /\ Size(s.Actions) <= SelMaxActions
    /\ Size(s.selection) <= SelMaxActions
    /\ \A i \in 1..Len(s.Actions) : s.Actions[i].at \in SelTimes

SelStep(s, op) ==
    /\ SelBounded(s)
    /\ Becomes(s)
    /\ lastOp' = op
    /\ UNCHANGED <<events, ret, undoVars, save, handlers, lua>>

NextSelection ==
    \/ \E a \in SelInputs : SelStep(AddActionSafe(Cur, a), "AddActionSafe")
    \/ SelStep(SelectAll(Cur), "SelectAll")
    \/ \E time_offset \in TimeOffsets, frameTimeMs \in Tolerances :
           SelStep(MoveSelectionTime(Cur, time_offset, frameTimeMs), "MoveSelectionTime")
    \/ \E pos_offset \in PositionOffsets :
           SelStep(MoveSelectionPosition(Cur, pos_offset), "MoveSelectionPosition")
    \/ SelStep(EqualizeSelection(Cur), "EqualizeSelection")
    \/ SelStep(InvertSelection(Cur), "InvertSelection")
    \/ \E rangeExtend \in RangeExtends, undef \in UndefinedPositions :
           SelStep(RangeExtendSelection(Cur, rangeExtend, undef), "RangeExtendSelection")
    \/ SplineNeedsUpdate /\ SelStep(SplineUpdate(Cur), "SplineUpdate")
    \* update() once a frame; the event loop takes the pushed events off the queue.
    \/ SelStep(update(Cur).s, "update")

SpecSelection == Init /\ [][NextSelection]_vars

\* The calls that write to the store, as lastOp names them.
FacadeCalls ==
    {"AddActionSafe", "SelectAll", "MoveSelectionTime", "MoveSelectionPosition",
     "EqualizeSelection", "InvertSelection", "RangeExtendSelection"}

\* C10: every edit facade or selection engine call that changes an action of
\* the store (timestamp, position, insertion or removal) has raised the
\* actions-changed flag by the time it returns.
ChangeRaisesFlag ==
    [][(lastOp' \in FacadeCalls /\ Actions' # Actions) => funscriptChanged']_vars

\* --------------------------------------------------- queries on a store
\* Every sorted store of at most MaxActions actions.
SortedStores ==
    {st \in UNION {[1..n -> ActionInputs] : n \in 0..MaxActions} : StrictlyIncreasing(st)}

\* Query times: from before the first possible timestamp to after the last.
QueryTimes == (0 - 1)..(MaxTime + 1)

InitQuery ==
    /\ Actions \in SortedStores
    /\ selection = <<>>
    /\ funscriptChanged = TRUE
    /\ selectionChanged = FALSE
    /\ SplineNeedsUpdate = TRUE
    /\ ActionMap = EmptyMap
    /\ events = <<>>
    /\ lastOp = "SetActions"
    /\ ret = NoResult
    /\ InitUndo
    /\ InitSave
    /\ InitEvents
    /\ InitLua

\* Tolerances of getActionAtTime, in milliseconds.
MaxError == 2
QueryErrors == 0..MaxError

NextQuery ==
    \/ /\ SplineNeedsUpdate
       /\ Becomes(SplineUpdate(Cur))
       /\ lastOp' = "SplineUpdate"
       /\ UNCHANGED <<events, ret, undoVars, save, handlers, lua>>
    \/ \E time_ms \in QueryTimes :
           /\ ret' = [op |-> "GetPositionAtTime", time_ms |-> time_ms,
                      indexed |-> ~SplineNeedsUpdate,
                      value |-> GetPositionAtTime(Cur, time_ms)]
           /\ lastOp' = "GetPositionAtTime"
           /\ UNCHANGED <<Actions, selection, funscriptChanged, selectionChanged,
                          SplineNeedsUpdate, ActionMap, events, undoVars, save, handlers, lua>>
    \/ \E time_ms \in QueryTimes, max_error_ms \in QueryErrors :
           /\ ret' = [op |-> "getActionAtTime", time_ms |-> time_ms,
                      max_error_ms |-> max_error_ms, indexed |-> ~SplineNeedsUpdate,
                      found |-> getActionAtTime(Cur, time_ms, max_error_ms)]
           /\ lastOp' = "getActionAtTime"
           /\ UNCHANGED <<Actions, selection, funscriptChanged, selectionChanged,
                          SplineNeedsUpdate, ActionMap, events, undoVars, save, handlers, lua>>
    \/ \E time_ms \in QueryTimes :
           /\ ret' = [op |-> "getPreviousActionBehind", time_ms |-> time_ms,
                      indexed |-> ~SplineNeedsUpdate,
                      found |-> getPreviousActionBehind(Cur, time_ms)]
           /\ lastOp' = "getPreviousActionBehind"
           /\ UNCHANGED <<Actions, selection, funscriptChanged, selectionChanged,
                          SplineNeedsUpdate, ActionMap, events, undoVars, save, handlers, lua>>
    \/ \E time_ms \in QueryTimes :
           /\ ret' = [op |-> "getNextActionAhead", time_ms |-> time_ms,
                      indexed |-> ~SplineNeedsUpdate,
                      found |-> getNextActionAhead(Cur, time_ms)]
           /\ lastOp' = "getNextActionAhead"
           /\ UNCHANGED <<Actions, selection, funscriptChanged, selectionChanged,
                          SplineNeedsUpdate, ActionMap, events, undoVars, save, handlers, lua>>

SpecQuery == InitQuery /\ [][NextQuery]_vars

\* What a GetLastStroke that has read outside the store may return: nothing,
\* or whatever it took for an action there.
UndefinedStrokes == {<<>>} \cup {<<a>> : a \in ActionInputs}

\* GetLastStroke on every sorted store, for every time.
NextStroke ==
    \E time_ms \in QueryTimes :
        LET stroke == GetLastStroke(Cur, time_ms)
        IN  /\ \E returned \in IF stroke.outOfBounds THEN UndefinedStrokes
                                ELSE {stroke.stroke} :
                   ret' = [op |-> "GetLastStroke", time_ms |-> time_ms,
                           outOfBounds |-> stroke.outOfBounds, stroke |-> returned]
            /\ lastOp' = "GetLastStroke"
            /\ UNCHANGED <<Actions, selection, funscriptChanged, selectionChanged,
                           SplineNeedsUpdate, ActionMap, events, undoVars, save, handlers, lua>>

SpecStroke == InitQuery /\ [][NextStroke]_vars

Stale(s) == [s EXCEPT !.SplineNeedsUpdate = TRUE]

\* C4: on a sorted store, a GetPositionAtTime answered with a valid spline
\* index is the value the scan from index 0 (the stale-index path) gives for
\* the same store and time.
IndexedPositionAgrees ==
    (ret.op = "GetPositionAtTime" /\ ret.indexed)
        => ret.value = GetPositionAtTime(Stale(Cur), ret.time_ms)

\* An indexed query that interpolated between the second and third action:
\* the index moved the start of the scan past index 0.
IndexedPositionWitness ==
    /\ ret.op = "GetPositionAtTime"
    /\ ret.indexed
    /\ Len(Actions) >= 3
    /\ Actions[2].at < ret.time_ms
    /\ ret.time_ms < Actions[3].at
    /\ Actions[2].pos # Actions[3].pos

\* The reference of C5 for two or more actions and a time not before the
\* first timestamp.
PositionReference(actions, t) ==
    IF Len(actions) = 0 THEN Frac(0, 1)
    ELSE IF Len(actions) = 1 THEN Frac(actions[1].pos, 1)
    ELSE IF \E i \in 1..Len(actions) : actions[i].at = t
         THEN Frac(actions[CHOOSE i \in 1..Len(actions) : actions[i].at = t].pos, 1)
    ELSE IF t > actions[Len(actions)].at THEN Frac(actions[Len(actions)].pos, 1)
    ELSE LET i == CHOOSE i \in 1..(Len(actions) - 1) :
                      actions[i].at < t /\ t < actions[i + 1].at
             a == actions[i]
             b == actions[i + 1]
         IN  Frac(a.pos * (b.at - a.at) + (t - a.at) * (b.pos - a.pos), b.at - a.at)

ExampleStore ==
    [Cur EXCEPT !.Actions = <<FunscriptAction(0, 0), FunscriptAction(1000, 100)>>,
                !.SplineNeedsUpdate = TRUE]

\* C39: for a store with two or more actions and a time t strictly less
\* than the first action's timestamp, GetPositionAtTime(t) returns the
\* position of the last action in the store, with the index valid or stale.
BeforeFirstGivesLast ==
    (/\ ret.op = "GetPositionAtTime"
     /\ Len(Actions) >= 2
     /\ ret.time_ms < Actions[1].at)
        => ret.value = Frac(Actions[Len(Actions)].pos, 1)

\* A time before the first action was asked for with a valid index, on a
\* store whose first and last positions differ.
BeforeFirstWitness ==
    /\ ret.op = "GetPositionAtTime"
    /\ ret.indexed
    /\ Len(Actions) >= 2
    /\ ret.time_ms < Actions[1].at
    /\ Actions[1].pos # Actions[Len(Actions)].pos
    /\ ret.value = Frac(Actions[Len(Actions)].pos, 1)

\* C5: GetPositionAtTime(t) is 0 on an empty store, the single position on a
\* one-action store, and otherwise the position of the action at t, the linear
\* interpolation between the adjacent pair around t, or the last position when
\* t is past the last timestamp; (0,0),(1000,100) give 50 at t = 500.
PositionIsReference ==
    /\ (ret.op = "GetPositionAtTime"
          /\ (Len(Actions) < 2 \/ ret.time_ms >= Actions[1].at))
        => ret.value = PositionReference(Actions, ret.time_ms)
    /\ GetPositionAtTime(ExampleStore, 500) = Frac(50, 1)
    /\ GetPositionAtTime(SplineUpdate(ExampleStore), 500) = Frac(50, 1)

\* A query that interpolated to a value that is no action's position.
PositionInterpolatedWitness ==
    /\ ret.op = "GetPositionAtTime"
    /\ Len(Actions) >= 2
    /\ \E i \in 1..(Len(Actions) - 1) :
          /\ Actions[i].at < ret.time_ms
          /\ ret.time_ms < Actions[i + 1].at
          /\ Actions[i].pos # Actions[i + 1].pos
    /\ \A i \in 1..Len(Actions) : ret.value # Frac(Actions[i].pos, 1)

\* The store indices (1-based) of the actions within max_error_ms of t.
WithinError(t, max_error_ms) ==
    {i \in 1..Len(Actions) : Abs(t - Actions[i].at) <= max_error_ms}

\* C11: on a sorted store, getActionAtTime(t, maxErrorMs) returns an action
\* iff some action satisfies |t - at| <= maxErrorMs; the returned action
\* minimises |t - at| over the actions within the tolerance, and of two
\* equidistant actions it is the one with the smaller timestamp.
ActionNearIsNearest ==
    ret.op = "getActionAtTime" =>
        LET within == WithinError(ret.time_ms, ret.max_error_ms)
            found  == ret.found + 1
        IN  /\ (ret.found # Null) <=> (within # {})
            /\ ret.found # Null =>
                  /\ found \in within
                  /\ \A j \in within :
                        /\ Abs(ret.time_ms - Actions[found].at)
                              <= Abs(ret.time_ms - Actions[j].at)
                        /\ Abs(ret.time_ms - Actions[found].at)
                              = Abs(ret.time_ms - Actions[j].at) => found <= j

\* The 0-based index of the action with the greatest timestamp strictly
\* less than t, and of the one with the smallest timestamp strictly greater
\* than t; Null if there is none.
StrictlyBehind(t) ==
    LET behind == {i \in 0..(Size(Actions) - 1) : At(Actions, i).at < t}
    IN  IF behind = {} THEN Null
        ELSE CHOOSE i \in behind : \A j \in behind : At(Actions, j).at <= At(Actions, i).at

StrictlyAhead(t) ==
    LET ahead == {i \in 0..(Size(Actions) - 1) : At(Actions, i).at > t}
    IN  IF ahead = {} THEN Null
        ELSE CHOOSE i \in ahead : \A j \in ahead : At(Actions, i).at <= At(Actions, j).at

\* C12: on a sorted store, getPreviousActionBehind(t) returns the action
\* with the greatest timestamp strictly less than t and getNextActionAhead(t)
\* the action with the smallest timestamp strictly greater than t (none if
\* there is none), never the action at t, with a valid and with a stale
\* spline index alike.
NeighboursAreStrict ==
    /\ ret.op = "getPreviousActionBehind" => ret.found = StrictlyBehind(ret.time_ms)
    /\ ret.op = "getNextActionAhead" => ret.found = StrictlyAhead(ret.time_ms)

\* The actions up to the one at index i go one way: they are the first stroke
\* of the store, or its beginning.
InFirstStroke(i) ==
    \/ i <= 1
    \/ \A j \in 1..i : Actions[j].pos < Actions[j + 1].pos
    \/ \A j \in 1..i : Actions[j].pos > Actions[j + 1].pos

\* C26: GetLastStroke(t) returns an empty result whenever the store has fewer
\* than 2 actions or the action nearest to t lies in the first stroke (the
\* nearest being the first or the second action of the store included), and
\* it does so without reading an element before the first or after the last
\* action.
FirstStrokeHasNoLast ==
    (/\ ret.op = "GetLastStroke"
     /\ Size(Actions) < 2 \/ InFirstStroke(NearestElement(Actions, ret.time_ms))) =>
        /\ ret.stroke = <<>>
        /\ ~ret.outOfBounds

\* A sorted store with a consistent index, of which a non-empty proper part is
\* selected, the selection being in ascending order and stored.
PartlySelected ==
    /\ StrictlyIncreasing(Actions)
    /\ StrictlyIncreasing(selection)
    /\ SplineNeedsUpdate \/ ActionMap = BuildActionMap(Actions)
    /\ \A i \in 1..Len(selection) : Contains(Actions, selection[i])
    /\ Len(selection) > 0
    /\ Len(selection) < Len(Actions)

\* C17: when only part of the store is selected, MoveSelectionTime(offset,
\* minSpacing) does not move the selected block across its unselected
\* neighbours: after a forward move the last moved timestamp is at most
\* next.at - minSpacing, next being the first action after the block, and
\* after a backward move the first moved timestamp is at least
\* prev.at + minSpacing, prev being the last action before the block.
BlockStaysBetween ==
    PartlySelected =>
        \A time_offset \in TimeOffsets, frameTimeMs \in Tolerances :
            LET moved == MoveSelectionTime(Cur, time_offset, frameTimeMs).selection
                prev  == StrictlyBehind(selection[1].at)
                next  == StrictlyAhead(selection[Len(selection)].at)
            IN  /\ (time_offset > 0 /\ next # Null) =>
                      moved[Len(moved)].at <= At(Actions, next).at - frameTimeMs
                /\ (time_offset < 0 /\ prev # Null) =>
                      moved[1].at >= At(Actions, prev).at + frameTimeMs

\* C37: MoveSelectionTime never moves against the requested direction: with
\* time_offset > 0 no action's timestamp decreases and with time_offset < 0
\* no action's timestamp increases, for every store, every non-empty
\* selection and every minimum spacing, the spline index valid or stale.
MoveKeepsDirection ==
    HasSelection(Cur) =>
        \A time_offset \in TimeOffsets, frameTimeMs \in Tolerances :
            LET moved == MoveSelectionTime(Cur, time_offset, frameTimeMs).Actions
            IN  /\ Len(moved) = Len(Actions)
                /\ \A i \in 1..Len(Actions) :
                       /\ time_offset > 0 => moved[i].at >= Actions[i].at
                       /\ time_offset < 0 => moved[i].at <= Actions[i].at

\* C18: if every action supplied by callers has a timestamp >= 0, every
\* action in the store has a timestamp >= 0 after any sequence of operations,
\* MoveSelectionTime with a negative offset on a full selection and on a
\* partial selection with no unselected action before it included.
TimestampsStayNonNegative ==
    (\A i \in 1..Len(Actions) : Actions[i].at >= 0) =>
        \A time_offset \in TimeOffsets, frameTimeMs \in Tolerances :
            LET moved == MoveSelectionTime(Cur, time_offset, frameTimeMs).Actions
            IN  \A i \in 1..Len(moved) : moved[i].at >= 0

\* ------------------------------------------- peaks and troughs of a selection
NextPeaks ==
    \/ SelStep(SelectAll(Cur), "SelectAll")
    \/ SelStep(SelectTopActions(Cur), "SelectTopActions")
    \/ SelStep(SelectBottomActions(Cur), "SelectBottomActions")
    \/ SelStep(SelectMidActions(Cur), "SelectMidActions")
    \/ SelStep(EqualizeSelection(Cur), "EqualizeSelection")
    \/ SelStep(update(Cur).s, "update")
    \/ \E rangeExtend \in RangeExtends, undef \in UndefinedPositions :
           /\ Becomes(RangeExtendSelection(Cur, rangeExtend, undef))
           /\ lastOp' = "RangeExtendSelection"
           /\ ret' = [op |-> "RangeExtendSelection", rangeExtend |-> rangeExtend,
                      selected |-> Size(selection)]
           /\ UNCHANGED <<events, undoVars, save, handlers, lua>>

SpecPeaks == InitQuery /\ [][NextPeaks]_vars

\* The neighbours of the k-th entry of a selection: the entries next to it.
Neighbours(sel, k) == {sel[j] : j \in {k - 1, k + 1} \cap (1..Len(sel))}

\* C20: after SelectTopActions on a selection of 3 or more actions the result
\* is a subset of the original selection in which every action has a position
\* >= the positions of its neighbours in the original selection; after
\* SelectBottomActions, symmetrically, a position <= both.  Neither changes
\* the action store.
OnlyPeaksKept ==
    [][(lastOp' \in {"SelectTopActions", "SelectBottomActions"} /\ Len(selection) >= 3) =>
          /\ Actions' = Actions
          /\ Elems(selection') \subseteq Elems(selection)
          /\ \A k \in 1..Len(selection) :
                selection[k] \in Elems(selection') =>
                    \A n \in Neighbours(selection, k) :
                        IF lastOp' = "SelectTopActions"
                        THEN selection[k].pos >= n.pos
                        ELSE selection[k].pos <= n.pos]_vars

\* C24: RangeExtendSelection(0) leaves the position and the timestamp of
\* every selected action, and of every other action of the store, unchanged,
\* for every selection.
ZeroExtendKeepsStore ==
    [][(lastOp' = "RangeExtendSelection" /\ ret'.rangeExtend = 0) =>
          Actions' = Actions]_vars

\* RangeExtendSelection(0) was called with all three actions of a store
\* selected whose middle action lies between its neighbours.
ZeroExtendWitness ==
    /\ lastOp = "RangeExtendSelection"
    /\ ret.rangeExtend = 0
    /\ ret.selected = 3
    /\ Len(Actions) = 3
    /\ Actions[1].pos < Actions[2].pos
    /\ Actions[2].pos < Actions[3].pos

\* C25: SelectTopActions, SelectBottomActions, SelectMidActions and
\* EqualizeSelection called with fewer than 3 selected actions are no-ops: the
\* store, the selection and both change flags are as before the call.
FewSelectedIsNoOp ==
    [][(/\ lastOp' \in {"SelectTopActions", "SelectBottomActions",
                        "SelectMidActions", "EqualizeSelection"}
        /\ Len(selection) < 3) =>
          UNCHANGED <<Actions, selection, funscriptChanged, selectionChanged>>]_vars

\* One of the four was called with two actions selected and both flags down;
\* a call on three or more would have raised the selection flag.
FewSelectedWitness ==
    /\ lastOp \in {"SelectTopActions", "SelectBottomActions",
                   "SelectMidActions", "EqualizeSelection"}
    /\ Len(selection) = 2
    /\ ~funscriptChanged
    /\ ~selectionChanged

\* ------------------------------------------------ equalizing a selection
EqMaxActions == 15
EqMaxDuration == 31

\* Sorted stores of n actions, the first n - 1 one millisecond apart from 0 on
\* and the last at d.
EqualizeStores ==
    {[i \in 1..p[1] |-> FunscriptAction(IF i = p[1] THEN p[2] ELSE i - 1, 100 * (i % 2))] :
        p \in {q \in (3..EqMaxActions) \X (2..EqMaxDuration) : q[2] >= q[1] - 1}}

InitEqualize ==
    /\ Actions \in EqualizeStores
    /\ selection = Actions
    /\ funscriptChanged = TRUE
    /\ selectionChanged = TRUE
    /\ SplineNeedsUpdate = TRUE
    /\ ActionMap = EmptyMap
    /\ events = <<>>
    /\ lastOp = "SelectAll"
    /\ ret = NoResult
    /\ InitUndo
    /\ InitSave
    /\ InitEvents
    /\ InitLua

NextEqualize ==
    \/ /\ Becomes(EqualizeSelection(Cur))
       /\ lastOp' = "EqualizeSelection"
       /\ UNCHANGED <<events, ret, undoVars, save, handlers, lua>>
    \/ /\ Becomes(update(Cur).s)
       /\ lastOp' = "update"
       /\ UNCHANGED <<events, ret, undoVars, save, handlers, lua>>
    \/ /\ Becomes(SetActions(Cur, <<>>))
       /\ lastOp' = "SetActions"
       /\ UNCHANGED <<events, ret, undoVars, save, handlers, lua>>

SpecEqualize == InitEqualize /\ [][NextEqualize]_vars

\* The integer nearest to n/d (n >= 0, d > 0), halves going up.
NearestInteger(n, d) == (2 * n + d) \div (2 * d)

\* C21: after EqualizeSelection on a selection of n >= 3 actions with first
\* timestamp f and last timestamp l, the i-th selected action (0 <= i <= n-1)
\* has the timestamp f + round(i * (l - f) / (n - 1)) and its original
\* position; the first and the last keep their timestamps.
EqualizeSpacesEvenly ==
    [][(lastOp' = "EqualizeSelection" /\ Len(selection) >= 3) =>
          LET n == Len(selection)
              f == selection[1].at
              l == selection[n].at
          IN  /\ Len(selection') = n
              /\ \A i \in 0..(n - 1) :
                    /\ selection'[i + 1].at = f + NearestInteger(i * (l - f), n - 1)
                    /\ selection'[i + 1].pos = selection[i + 1].pos]_vars

\* C22: EqualizeSelection preserves membership: afterwards the selection has
\* as many entries as before, each entry is value-equal to an action of the
\* store, and the store holds as many actions as before the call.
EqualizeKeepsMembers ==
    [][lastOp' = "EqualizeSelection" =>
          /\ Len(selection') = Len(selection)
          /\ \A i \in 1..Len(selection') : Contains(Actions', selection'[i])
          /\ Len(Actions') = Len(Actions)]_vars

\* ------------------------------------------------ edits under the undo log
UndoMaxTime == 1
UndoMaxDepth == 2

\* One action per timestamp, of alternating position.
UndoInputs == {FunscriptAction(t, 100 * (t % 2)) : t \in 0..UndoMaxTime}

UndoKinds == {"ADD_ACTION", "REMOVE_ACTION"}

\* What is recorded of a round trip when the timeline is edited: the
\* snapshot's timeline stays while no undo has been made.
Edited(sh) == IF sh.phase = "snapshotted" THEN sh ELSE NoShot

UndoEdit(s, op) ==
    /\ Becomes(s)
    /\ lastOp' = op
    /\ shot' = Edited(shot)
    /\ UNCHANGED <<events, ret, UndoStack, RedoStack, hist, save, handlers, lua>>

LogBecomes(u) ==
    /\ UndoStack' = u.UndoStack
    /\ RedoStack' = u.RedoStack

NextUndo ==
    \/ \E a \in UndoInputs : UndoEdit(AddActionSafe(Cur, a), "AddActionSafe")
    \/ \E a \in UndoInputs : UndoEdit(RemoveAction(Cur, a, TRUE), "RemoveAction")
    \/ UndoEdit(SelectAll(Cur), "SelectAll")
    \* Snapshot(type): the second argument is left to its default.
    \/ \E type \in UndoKinds :
           /\ Len(UndoStack) + (IF DefaultClearRedo THEN 0 ELSE Len(RedoStack)) < UndoMaxDepth
           /\ LogBecomes(Snapshot(CurLog, type, DefaultClearRedo, FunscriptData(Cur)))
           /\ lastOp' = "Snapshot"
           /\ ret' = [op |-> "Snapshot", redoBefore |-> Len(RedoStack)]
           /\ shot' = [phase |-> "snapshotted", T0 |-> FunscriptData(Cur)]
           /\ UNCHANGED <<Actions, selection, funscriptChanged, selectionChanged,
                          SplineNeedsUpdate, ActionMap, events, hist, save, handlers, lua>>
    \* Snapshot(type, false)
    \/ \E type \in UndoKinds :
           /\ Len(UndoStack) + Len(RedoStack) < UndoMaxDepth
           /\ LogBecomes(Snapshot(CurLog, type, FALSE, FunscriptData(Cur)))
           /\ lastOp' = "SnapshotKeepRedo"
           /\ ret' = [op |-> "Snapshot", redoBefore |-> Len(RedoStack)]
           /\ shot' = [phase |-> "snapshotted", T0 |-> FunscriptData(Cur)]
           /\ UNCHANGED <<Actions, selection, funscriptChanged, selectionChanged,
                          SplineNeedsUpdate, ActionMap, events, hist, save, handlers, lua>>
    \/ LET r == Undo(CurLog, Cur)
       IN  /\ LogBecomes(r.u)
           /\ Becomes(r.s)
           /\ lastOp' = "Undo"
           /\ shot' = IF shot.phase = "snapshotted"
                      THEN [phase |-> "undone", T0 |-> shot.T0, T1 |-> FunscriptData(Cur)]
                      ELSE NoShot
           /\ UNCHANGED <<events, ret, hist, save, handlers, lua>>
    \/ LET r == Redo(CurLog, Cur)
       IN  /\ LogBecomes(r.u)
           /\ Becomes(r.s)
           /\ lastOp' = "Redo"
           /\ shot' = IF shot.phase = "undone"
                      THEN [phase |-> "redone", T0 |-> shot.T0, T1 |-> shot.T1]
                      ELSE NoShot
           /\ UNCHANGED <<events, ret, hist, save, handlers, lua>>

SpecUndo == Init /\ [][NextUndo]_vars

\* C3: after snapshot in timeline T0 and edits leading to T1, undo() leaves
\* the live actions and selection equal to T0, and a redo() right after it
\* leaves them equal to T1.
UndoRedoRoundTrip ==
    /\ shot.phase = "undone" => FunscriptData(Cur) = shot.T0
    /\ shot.phase = "redone" => FunscriptData(Cur) = shot.T1

\* A completed round trip between two different timelines, the later one with
\* a selection.
UndoRedoWitness ==
    /\ shot.phase = "redone"
    /\ shot.T0 # shot.T1
    /\ shot.T1.selection # <<>>
    /\ shot.T0.Actions # <<>>

\* C8: Snapshot(kind) with the default clearRedo leaves the redo stack empty,
\* so a Redo() right after it changes nothing; Snapshot(kind, false) leaves the
\* redo stack as it was.
SnapshotClearsRedo ==
    [][/\ lastOp' = "Snapshot" => RedoStack' = <<>>
       /\ lastOp' = "SnapshotKeepRedo" => RedoStack' = RedoStack
       /\ (lastOp = "Snapshot" /\ lastOp' = "Redo")
            => UNCHANGED <<Actions, selection, UndoStack, RedoStack>>]_vars

\* A default snapshot taken while the redo stack held an entry.
SnapshotClearsRedoWitness ==
    /\ lastOp = "Snapshot"
    /\ ret.op = "Snapshot"
    /\ ret.redoBefore > 0
    /\ RedoStack = <<>>

\* ------------------------------------------------- a long snapshot history
\* The snapshots made in all, and the deepest redo stack.
HistMaxPushes == 1003
HistMaxRedo == 2

\* The kind of the n-th snapshot: the kinds in turn.
HistKind(n) == StateTypes[(n % TOTAL_UNDOSTATE_TYPES) + 1]

\* What a snapshot adds to the record.
HistPushed == [count |-> hist.count + 1, consecutive |-> hist.consecutive + 1]

\* Undo and redo are made after the first snapshots and near the bound, where
\* an eviction can follow them.
HistUndoRedoPoint ==
    hist.count <= HistMaxRedo \/ Len(UndoStack) >= MaxScriptStateInMemory - 1

NextHistory ==
    \/ /\ hist.count < HistMaxPushes
       /\ LogBecomes(Snapshot(CurLog, HistKind(hist.count), DefaultClearRedo,
                              FunscriptData(Cur)))
       /\ lastOp' = "Snapshot"
       /\ ret' = [op |-> "Snapshot", evicted |-> Len(UndoStack) >= MaxScriptStateInMemory,
                  redoBefore |-> RedoStack]
       /\ hist' = HistPushed
       /\ UNCHANGED <<Actions, selection, funscriptChanged, selectionChanged,
                      SplineNeedsUpdate, ActionMap, events, shot, save, handlers, lua>>
    \/ /\ hist.count < HistMaxPushes
       /\ LogBecomes(Snapshot(CurLog, HistKind(hist.count), FALSE, FunscriptData(Cur)))
       /\ lastOp' = "SnapshotKeepRedo"
       /\ ret' = [op |-> "Snapshot", evicted |-> Len(UndoStack) >= MaxScriptStateInMemory,
                  redoBefore |-> RedoStack]
       /\ hist' = HistPushed
       /\ UNCHANGED <<Actions, selection, funscriptChanged, selectionChanged,
                      SplineNeedsUpdate, ActionMap, events, shot, save, handlers, lua>>
    \/ LET r == Undo(CurLog, Cur)
       IN  /\ HistUndoRedoPoint
           /\ Len(RedoStack) < HistMaxRedo
           /\ LogBecomes(r.u)
           /\ Becomes(r.s)
           /\ lastOp' = "Undo"
           /\ hist' = [hist EXCEPT !.consecutive = 0]
           /\ UNCHANGED <<events, ret, shot, save, handlers, lua>>
    \/ LET r == Redo(CurLog, Cur)
       IN  /\ HistUndoRedoPoint
           /\ RedoStack # <<>>
           /\ LogBecomes(r.u)
           /\ Becomes(r.s)
           /\ lastOp' = "Redo"
           /\ hist' = [hist EXCEPT !.consecutive = 0]
           /\ UNCHANGED <<events, ret, shot, save, handlers, lua>>

SpecHistory == Init /\ [][NextHistory]_vars

\* The n most recent snapshots in push order, the last being snapshot number
\* hist.count - 1: the timeline is the same throughout, the kinds go in turn.
MostRecent(n) ==
    [i \in 1..n |-> ScriptState(HistKind(hist.count - n + i - 1), FunscriptData(Cur))]

\* C7: the undo stack never holds more than 1000 snapshots; after more than
\* 1000 consecutive snapshots it holds the 1000 most recent in push order; a
\* snapshot that evicts and keeps the redo stack leaves the redo stack as it
\* was.
BoundedHistory ==
    /\ Len(UndoStack) <= 1000
    /\ hist.consecutive > 1000 =>
          /\ Len(UndoStack) = 1000
          /\ UndoStack = MostRecent(1000)
    /\ (lastOp = "SnapshotKeepRedo" /\ ret.evicted) => RedoStack = ret.redoBefore

\* More than 1000 consecutive snapshots, the last one evicting while the redo
\* stack held an entry.
BoundedHistoryWitness ==
    /\ hist.consecutive > 1000
    /\ lastOp = "SnapshotKeepRedo"
    /\ ret.evicted
    /\ RedoStack # <<>>

\* -------------------------------------------------------- the save threads
MaxSaves == 2

\* The destination of every save.
SavePath == "a.funscript"

\* Loaded scripts: keys of other tools next to those of the editor.
BaseInputs ==
    {[actions |-> <<FunscriptAction(0, 0)>>, title |-> "a"],
     [actions |-> <<>>, version |-> "0.9", title |-> "b"]}

\* The json handed to a save: the metadata of the script.
JsonInputs == {[metadata |-> "m"], [metadata |-> "n", title |-> "c"]}

\* Actions the editing thread adds.
SaveEdits == {FunscriptAction(1, 30)}

\* A step of save thread w.
SaveThread(w) ==
    /\ w <= Len(save.workers)
    /\ save' = SaveFunscriptThread(save, w)
    /\ save' # save
    /\ UNCHANGED <<Actions, selection, funscriptChanged, selectionChanged,
                   SplineNeedsUpdate, ActionMap, events, lastOp, ret, undoVars, handlers, lua>>

NextSave ==
    \* the editing thread hands the store and a json to a new save thread
    \/ \E json \in JsonInputs :
           /\ ~save.setting
           /\ Len(save.workers) < MaxSaves
           /\ save' = startSaveThread(save, SavePath, Actions, json)
           /\ lastOp' = "startSaveThread"
           /\ UNCHANGED <<Actions, selection, funscriptChanged, selectionChanged,
                          SplineNeedsUpdate, ActionMap, events, ret, undoVars, handlers, lua>>
    \* setBaseScript: BaseLoaded = base
    \/ \E base \in BaseInputs :
           /\ ~save.setting
           /\ save' = [save EXCEPT !.BaseLoaded = base, !.setting = TRUE]
           /\ lastOp' = "setBaseScript"
           /\ UNCHANGED <<Actions, selection, funscriptChanged, selectionChanged,
                          SplineNeedsUpdate, ActionMap, events, ret, undoVars, handlers, lua>>
    \* setBaseScript: the erases, and the return
    \/ /\ save.setting
       /\ save' = [save EXCEPT !.BaseLoaded = EraseGenerated(@), !.setting = FALSE]
       /\ UNCHANGED <<Actions, selection, funscriptChanged, selectionChanged,
                      SplineNeedsUpdate, ActionMap, events, lastOp, ret, undoVars, handlers, lua>>
    \* the editing thread edits the store
    \/ \E a \in SaveEdits :
           /\ ~save.setting
           /\ Becomes(AddActionSafe(Cur, a))
           /\ lastOp' = "AddActionSafe"
           /\ UNCHANGED <<events, ret, undoVars, save, handlers, lua>>
    \/ \E w \in 1..MaxSaves : SaveThread(w)

\* Every created thread is scheduled again and again.
SpecSave ==
    Init /\ [][NextSave]_vars /\ \A w \in 1..MaxSaves : WF_vars(SaveThread(w))

\* Save thread w is between SDL_LockMutex and SDL_UnlockMutex.
Between(w) ==
    /\ w <= Len(save.workers)
    /\ save.workers[w].pc \in {"locked", "assembled", "written"}

\* C27: for any number of startSaveThread calls on the same Funscript, at most
\* one save thread at a time is between SDL_LockMutex and SDL_UnlockMutex, so
\* the JSON assembly and file write of two saves never interleave; every
\* thread that acquires the mutex releases it.
SavesAreSerialized ==
    /\ [](\A w1, w2 \in 1..MaxSaves : (Between(w1) /\ Between(w2)) => w1 = w2)
    /\ \A w \in 1..MaxSaves :
           Between(w) ~> (/\ w <= Len(save.workers)
                          /\ save.workers[w].pc = "done"
                          /\ save.mutex # w)

\* One save thread has assembled its JSON while the other waits for the mutex.
SavesAreSerializedWitness ==
    /\ Len(save.workers) = 2
    /\ save.workers[1].pc = "created"
    /\ save.workers[2].pc = "assembled"

\* C28: what a save thread writes depends only on the values captured when
\* startSaveThread was called: changes the editing thread makes after the
\* hand-off, to the action sequence or to BaseLoaded by setBaseScript, are
\* not read by a thread in flight.
SaveWritesCaptured ==
    \A w \in 1..Len(save.workers) :
        LET data == save.workers[w]
        IN  data.pc \in {"assembled", "written", "done"} =>
                data.jsonObj = AssembleJson(data.captured.jsonObj, data.captured.actions,
                                            data.captured.base)

\* C36: if startSaveThread is called twice for the same destination path,
\* the thread of the first call completes its write before the thread of the
\* second call writes, so after both threads finish the destination holds the
\* contents of the later request.
SavesWriteInCallOrder ==
    /\ \A w1, w2 \in 1..Len(save.workers) :
           (/\ w1 < w2
            /\ save.workers[w1].path = save.workers[w2].path
            /\ save.workers[w2].pc \in {"written", "done"})
               => save.workers[w1].pc \in {"written", "done"}
    /\ (/\ Len(save.workers) > 0
        /\ \A w \in 1..Len(save.workers) : save.workers[w].pc = "done")
           => save.file = save.workers[Len(save.workers)].jsonObj

\* ------------------------------------------------- the undo log by itself
LogMaxDepth == 3

LogKinds == {"ADD_ACTION", CUSTOM_LUA}

\* The action the edits between the snapshots add and remove.
LogEdits == {FunscriptAction(0, 0)}

\* hist here: the largest size the undo stack has had.
InitLog ==
    /\ Actions = <<>>
    /\ selection = <<>>
    /\ funscriptChanged = TRUE
    /\ selectionChanged = FALSE
    /\ SplineNeedsUpdate = TRUE
    /\ ActionMap = EmptyMap
    /\ events = <<>>
    /\ lastOp = "Funscript"
    /\ ret = NoResult
    /\ UndoStack = <<>>
    /\ RedoStack = <<>>
    /\ shot = NoShot
    /\ hist = [largest |-> 0]
    /\ InitSave
    /\ InitEvents
    /\ InitLua

\* The log and the object become u and s; the largest undo size is kept up.
LogStep(u, s, op) ==
    /\ LogBecomes(u)
    /\ Becomes(s)
    /\ lastOp' = op
    /\ hist' = [largest |-> Max(hist.largest, Len(u.UndoStack))]
    /\ UNCHANGED <<events, shot, save, handlers, lua>>

NextLog ==
    \/ \E a \in LogEdits :
           LogStep(CurLog, AddActionSafe(Cur, a), "AddActionSafe") /\ UNCHANGED ret
    \/ \E a \in LogEdits :
           LogStep(CurLog, RemoveAction(Cur, a, TRUE), "RemoveAction") /\ UNCHANGED ret
    \/ \E type \in LogKinds, clearRedo \in BOOLEAN :
           /\ Len(UndoStack) + Len(RedoStack) < LogMaxDepth
           /\ LogStep(Snapshot(CurLog, type, clearRedo, FunscriptData(Cur)), Cur, "Snapshot")
           /\ ret' = [op |-> "Snapshot", clearRedo |-> clearRedo]
    \/ LET r == Undo(CurLog, Cur)
       IN  LogStep(r.u, r.s, "Undo") /\ UNCHANGED ret
    \/ LET r == Redo(CurLog, Cur)
       IN  LogStep(r.u, r.s, "Redo") /\ UNCHANGED ret
    \/ LET r == LuaUndo(CurLog, Cur)
       IN  LogStep(r.u, r.s, "LuaUndo") /\ ret' = [op |-> "LuaUndo", undo |-> r.undo]

SpecLog == InitLog /\ [][NextLog]_vars

\* C29: in every reachable state of the undo log, under any sequence of
\* snapshot (with or without redo preservation), undo and redo calls, the size
\* of the redo stack is at most the largest size the undo stack has had so
\* far.
RedoWithinUndoDepth == Len(RedoStack) <= hist.largest

\* C30: MatchUndoTop(kind) is true iff the undo stack is not empty and its top
\* snapshot has that kind; LuaUndo performs an undo only when the top
\* snapshot's kind is CUSTOM_LUA, and otherwise reports false and leaves the
\* undo stack, the redo stack and the timeline unchanged.
LuaUndoOnlyOwn ==
    [][lastOp' = "LuaUndo" =>
          LET top == UndoStack # <<>> /\ UndoStack[Len(UndoStack)].type = CUSTOM_LUA
          IN  /\ \A kind \in LogKinds :
                     MatchUndoTop(CurLog, kind)
                         <=> (UndoStack # <<>> /\ UndoStack[Len(UndoStack)].type = kind)
              /\ ret'.undo <=> top
              /\ top =>
                     /\ UndoStack' = SubSeq(UndoStack, 1, Len(UndoStack) - 1)
                     /\ Len(RedoStack') = Len(RedoStack) + 1
                     /\ Actions' = UndoStack[Len(UndoStack)].data.Actions
                     /\ selection' = UndoStack[Len(UndoStack)].data.selection
              /\ ~top => UNCHANGED <<UndoStack, RedoStack, Actions, selection>>]_vars

\* LuaUndo has undone a script host's snapshot taken over an older one of
\* another kind, and brought back the action that was removed since.
LuaUndoWitness ==
    /\ lastOp = "LuaUndo"
    /\ ret.undo
    /\ Len(UndoStack) = 1
    /\ UndoStack[1].type = "ADD_ACTION"
    /\ RedoStack # <<>>
    /\ RedoStack[Len(RedoStack)].data.Actions = <<>>
    /\ Actions # <<>>

\* ------------------------------------------ range extension over two strokes
ExtMaxActions == 4

\* Stores of ExtMaxActions actions at the timestamps 0, 1, ..., with every
\* combination of the three position levels.
ExtendStores ==
    {[i \in 1..ExtMaxActions |-> FunscriptAction(i - 1, p[i])] :
        p \in [1..ExtMaxActions -> Positions]}

InitExtend ==
    /\ Actions \in ExtendStores
    /\ selection = <<>>
    /\ funscriptChanged = TRUE
    /\ selectionChanged = FALSE
    /\ SplineNeedsUpdate = TRUE
    /\ ActionMap = EmptyMap
    /\ events = <<>>
    /\ lastOp = "SetActions"
    /\ ret = NoResult
    /\ InitUndo
    /\ InitSave
    /\ InitEvents
    /\ InitLua

NextExtend ==
    \/ /\ Becomes(SelectAll(Cur))
       /\ lastOp' = "SelectAll"
       /\ UNCHANGED <<events, ret, undoVars, save, handlers, lua>>
    \/ \E select \in Elems(Actions) :
           /\ Becomes(SelectAction(Cur, select))
           /\ lastOp' = "SelectAction"
           /\ UNCHANGED <<events, ret, undoVars, save, handlers, lua>>
    \/ \E rangeExtend \in RangeExtends, undef \in UndefinedPositions :
           /\ Becomes(RangeExtendSelection(Cur, rangeExtend, undef))
           /\ lastOp' = "RangeExtendSelection"
           /\ ret' = [op |-> "RangeExtendSelection", rangeExtend |-> rangeExtend,
                      selected |-> selection]
           /\ UNCHANGED <<events, undoVars, save, handlers, lua>>

SpecExtend == InitExtend /\ [][NextExtend]_vars

\* C33: for every selection and every amount, positive or negative, each call
\* of StretchPosition made by RangeExtendSelection has highest > lowest, so
\* the relative position never divides by zero and every stretched position
\* is a defined integer in 0..100: the store RangeExtendSelection leaves is
\* the same whatever a division by zero would yield.
StretchNeverDividesByZero ==
    \A rangeExtend \in RangeExtends :
        \A undef1, undef2 \in UndefinedPositions :
            RangeExtendSelection(Cur, rangeExtend, undef1).Actions
                = RangeExtendSelection(Cur, rangeExtend, undef2).Actions

\* C38: RangeExtendSelection(amount) changes only positions of selected
\* actions that are neither the first nor the last selected action: every
\* timestamp, the number and order of the store's actions, every unselected
\* action and the first and the last selected action are unchanged, for every
\* amount.
ExtendChangesInnerPositions ==
    \A rangeExtend \in RangeExtends, undef \in UndefinedPositions :
        LET after == RangeExtendSelection(Cur, rangeExtend, undef).Actions
        IN  /\ Len(after) = Len(Actions)
            /\ \A i \in 1..Len(Actions) :
                   /\ after[i].at = Actions[i].at
                   /\ after[i] # Actions[i] =>
                          /\ Contains(selection, Actions[i])
                          /\ Actions[i] # selection[1]
                          /\ Actions[i] # selection[Len(selection)]

\* --------------------------------------------------------- the event system
MaxHandlers == 3

EventTypes == {"FunscriptActionsChangedEvent", "FunscriptActionClickedEvent"}

Listeners == {"scripting", "timeline"}

\* The functions bound to a listener by EVENT_SYSTEM_BIND.
HandlerFuncs == {"f", "g"}

\* EventHandler(type, listener, func)
EventHandler(type, listener, func) ==
    [eventType |-> type, func |-> func, listener |-> listener]

\* EventSystem::Subscribe: handlers.emplace_back(eventType, listener, handler)
Subscribe(h, eventType, listener, handler) ==
    Append(h, EventHandler(eventType, listener, handler))

\* EventSystem::Unsubscribe: std::find_if on handler.listener == listener,
\* erase of the handler found; nothing is erased when none is found.
Unsubscribe(h, eventType, listener) ==
    LET found == {i \in 1..Len(h) : h[i].listener = listener}
    IN  IF found # {}
        THEN LET it == CHOOSE i \in found : \A j \in found : i <= j
             IN  SubSeq(h, 1, it - 1) \o SubSeq(h, it + 1, Len(h))
        ELSE h

\* EventSystem::PushEvent: the handlers whose func is called, in call order.
PushEvent(h, type) == SelectSeq(h, LAMBDA handler : handler.eventType = type)

NextEvents ==
    \/ \E eventType \in EventTypes, listener \in Listeners, handler \in HandlerFuncs :
           /\ Len(handlers) < MaxHandlers
           /\ handlers' = Subscribe(handlers, eventType, listener, handler)
           /\ lastOp' = "Subscribe"
           /\ UNCHANGED <<Actions, selection, funscriptChanged, selectionChanged,
                          SplineNeedsUpdate, ActionMap, events, ret, undoVars, save, lua>>
    \/ \E eventType \in EventTypes, listener \in Listeners :
           /\ handlers' = Unsubscribe(handlers, eventType, listener)
           /\ lastOp' = "Unsubscribe"
           /\ ret' = [op |-> "Unsubscribe", eventType |-> eventType,
                      listener |-> listener]
           /\ UNCHANGED <<Actions, selection, funscriptChanged, selectionChanged,
                          SplineNeedsUpdate, ActionMap, events, undoVars, save, lua>>
    \/ \E type \in EventTypes :
           /\ lastOp' = "PushEvent"
           /\ ret' = [op |-> "PushEvent", type |-> type,
                      called |-> PushEvent(handlers, type)]
           /\ UNCHANGED <<Actions, selection, funscriptChanged, selectionChanged,
                          SplineNeedsUpdate, ActionMap, events, undoVars, save,
                          handlers, lua>>

SpecEvents == Init /\ [][NextEvents]_vars

\* C35: EventSystem::Unsubscribe(eventType, listener) removes exactly one
\* handler, one that was subscribed with both the given eventType and the
\* given listener; the handlers the same listener registered for other event
\* types and all handlers of other listeners stay subscribed and keep being
\* invoked by PushEvent in subscription order.
UnsubscribeRemovesTheHandler ==
    [][lastOp' = "Unsubscribe" =>
          LET IsOther(handler) == ~(/\ handler.eventType = ret'.eventType
                                    /\ handler.listener = ret'.listener)
          IN  /\ (\E i \in 1..Len(handlers) : ~IsOther(handlers[i]))
                     => Len(handlers') = Len(handlers) - 1
              /\ SelectSeq(handlers', IsOther) = SelectSeq(handlers, IsOther)
              /\ \A type \in EventTypes :
                     SelectSeq(PushEvent(handlers', type), IsOther)
                         = SelectSeq(PushEvent(handlers, type), IsOther)]_vars

\* ------------------------------------------------------ the Lua extensions
\* lua.main is where the main thread is: "idle" between handlers, or the name
\* of the handler whose Lua_Pcall it is inside.  lua.thread is where the task
\* thread is: "none" (no thread), "loop" (at the while test) or "pcall"
\* (inside the Lua_Pcall of the front task).  lua.queued is every task ever
\* put on Tasks and lua.executed the ids of the tasks whose function was
\* called, both in order.  The extension is not reloaded once it has failed.
MaxTasks == 3

\* What an emplace that races with the task thread can leave behind.
RaceOutcomes == {"queued", "lost"}

\* Lua_Pcall up to lua_pcall: FUN_ASSERT(!call), call = true.
Lua_Pcall(l) == [l EXCEPT !.asserted = @ \/ l.call, !.call = TRUE]

\* Lua_Pcall after lua_pcall: call = false.
Lua_PcallReturn(l) == [l EXCEPT !.call = FALSE]

\* Tasks.emplace of a task whose Function is (isFunction) or is not the name
\* of a global function.  Tasks has no lock: an emplace by the main thread
\* while the task thread lives is a data race with its empty(), front() and
\* pop(), and the task may or may not arrive.
TasksEmplace(l, byMain, isFunction, outcome) ==
    LET task == [id |-> Len(l.queued) + 1, Function |-> isFunction]
        race == byMain /\ l.thread # "none"
    IN  [l EXCEPT !.queued = Append(@, task),
                  !.raced = @ \/ race,
                  !.Tasks = IF race /\ outcome = "lost" THEN @ ELSE Append(@, task)]

\* blockingTask.DoTask: TaskThreadFunc starts on a thread of its own.
DoTask(l) == [l EXCEPT !.thread = "loop"]

LuaStep(l, op) ==
    /\ lua' = l
    /\ lastOp' = op
    /\ UNCHANGED <<Actions, selection, funscriptChanged, selectionChanged,
                   SplineNeedsUpdate, ActionMap, events, ret, undoVars, save, handlers>>

\* OFS_LuaExtensions::Update up to its Lua_Pcall.
Update ==
    /\ lua.main = "idle"
    /\ LuaStep(IF lua.ExtensionError \/ lua.TaskBusy THEN lua
               ELSE [Lua_Pcall(lua) EXCEPT !.main = "Update"], "Update")

\* OFS_LuaExtensions::ShowExtensions up to the Lua_Pcall of the gui function.
ShowExtensions ==
    /\ lua.main = "idle"
    /\ LuaStep(IF lua.TaskBusy \/ lua.ExtensionError THEN lua
               ELSE [Lua_Pcall(lua) EXCEPT !.main = "ShowExtensions"], "ShowExtensions")

\* OFS_LuaExtensions::HandleBinding: a key binding of the extension, queued as
\* a task (UseTask) or called at once.
HandleBinding ==
    /\ lua.main = "idle"
    /\ \E UseTask \in BOOLEAN, isFunction \in BOOLEAN, outcome \in RaceOutcomes :
           /\ UseTask => Len(lua.queued) < MaxTasks
           /\ LuaStep(IF UseTask THEN TasksEmplace(lua, TRUE, isFunction, outcome)
                      ELSE IF isFunction
                           THEN [Lua_Pcall(lua) EXCEPT !.main = "HandleBinding"]
                           ELSE lua, "HandleBinding")

\* The Lua_Pcall of the main thread returns and its handler runs to its end:
\* a failed call marks the extension, and ShowExtensions hands a non-empty
\* queue to a new task thread.
MainReturn ==
    /\ lua.main # "idle"
    /\ \E result \in BOOLEAN :
           LET l1 == [Lua_PcallReturn(lua) EXCEPT
                          !.ExtensionError = @ \/ result, !.main = "idle"]
           IN  LuaStep(IF lua.main = "ShowExtensions" /\ l1.Tasks # <<>>
                       THEN DoTask([l1 EXCEPT !.TaskBusy = TRUE])
                       ELSE l1, lua.main)

\* One step of TaskThreadFunc: the while test with the end of the thread or
\* the call of the front task, and the return of the call with the pop.
TaskThreadFunc ==
    \/ /\ lua.thread = "loop"
       /\ LuaStep(IF lua.Tasks = <<>>
                  THEN [lua EXCEPT !.TaskBusy = FALSE, !.thread = "none"]
                  ELSE IF Head(lua.Tasks).Function
                       THEN [Lua_Pcall(lua) EXCEPT !.thread = "pcall"]
                       ELSE [lua EXCEPT !.Tasks = Tail(@)], lastOp)
    \/ /\ lua.thread = "pcall"
       /\ LuaStep([Lua_PcallReturn(lua) EXCEPT
                       !.executed = Append(@, Head(lua.Tasks).id),
                       !.Tasks = Tail(@), !.thread = "loop"], lastOp)

NextLua ==
    \/ Update
    \/ ShowExtensions
    \/ HandleBinding
    \/ MainReturn
    \/ TaskThreadFunc
    \* LuaScheduleTask (ofs.Task): called by the Lua code that a Lua_Pcall runs,
    \* on the main thread or on the task thread.
    \/ \E byMain \in BOOLEAN, isFunction \in BOOLEAN, outcome \in RaceOutcomes :
           /\ IF byMain THEN lua.main # "idle" ELSE lua.thread = "pcall"
           /\ Len(lua.queued) < MaxTasks
           /\ LuaStep(TasksEmplace(lua, byMain, isFunction, outcome), lastOp)

\* The task thread is scheduled, a Lua call returns, and ShowExtensions is
\* called frame after frame.
SpecLua ==
    /\ Init /\ [][NextLua]_vars
    /\ WF_vars(TaskThreadFunc) /\ WF_vars(MainReturn) /\ SF_vars(ShowExtensions)

\* C34: Lua_Pcall is never entered while another Lua_Pcall is still executing
\* (the debug assertion on its call flag never fires): while the task thread
\* started by ShowExtensions runs queued tasks (TaskBusy true), the main
\* thread is not inside a Lua_Pcall of Update, ShowExtensions or
\* HandleBinding.
PcallNeverReentered ==
    /\ ~lua.asserted
    /\ ~(lua.main # "idle" /\ lua.thread = "pcall")
    /\ lua.TaskBusy => lua.main = "idle"

\* C40: every Lua task put on Tasks, by ofs.Task or by a key binding with
\* UseTask, is eventually executed exactly once, in the order it was queued,
\* provided ShowExtensions keeps being called with an active extension;
\* TaskBusy is true from the start of a task thread until its queue is empty,
\* and Tasks is never accessed by the main thread and the task thread at the
\* same time.
TasksRunOnceInOrder ==
    /\ [](\A i, j \in 1..Len(lua.executed) :
              i < j => lua.executed[i] < lua.executed[j])
    /\ \A id \in 1..MaxTasks :
           (id <= Len(lua.queued) /\ lua.queued[id].Function)
               ~> (\E i \in 1..Len(lua.executed) : lua.executed[i] = id)
    /\ [](lua.thread # "none" => lua.TaskBusy)
    /\ []~lua.raced

====
